---------------------------- MODULE Spec2Model ----------------------------
(***************************************************************************)
(* A model of auto-deploy.py (class AutoDeployService): the deploy-check   *)
(* loop (run / run_once / process_project and what it calls), the          *)
(* health-check loop (start_health_scheduler.scheduler), and the shared    *)
(* state they keep under status_lock (statuses, history, deploy_history).  *)
(*                                                                         *)
(* Text is modelled as a sequence of character codes; code 0 stands for    *)
(* whitespace (a blank or a newline), so that str.strip() and slicing are  *)
(* computed and not assumed.  A Python dict with optional keys is a record *)
(* whose absent keys hold NoKey.                                           *)
(*                                                                         *)
(* The wall clock is read where the code reads it (lines 316, 377, 472 and *)
(* 842); a read returns a value no smaller than the read before it, and    *)
(* the host's UTC offset does not change during a run.  The reply of a     *)
(* handler is a function of the state it reads while it holds the lock     *)
(* (Reply); it is not kept in the state.  External commands, probes and    *)
(* notifications touch no shared state, so each handler's run of them is   *)
(* one step; taking and releasing status_lock are steps of their own.      *)
(*                                                                         *)
(* Spec is the process in mode 'all' (both loops); SpecEngine is the       *)
(* process in mode 'engine' (the deploy-check loop alone), explored with   *)
(* every outcome of every external command.  SpecApi adds the request      *)
(* thread of the web server (api_health, api_downtime, api_deployments) to *)
(* both loops.  SpecSeries is the request thread alone over logs of every  *)
(* shape at the edges of the windows and buckets; SpecPercent is the       *)
(* percentage computation of api_downtime over tallies of every size.      *)
(* SpecProbe is check_project_health with its strategies, over projects    *)
(* of every kind and every answer of the HTTP endpoint, the container      *)
(* runtime and the commands.  SpecLive is both loops going on for ever,    *)
(* each scheduled fairly.  SpecClock is the scheduler and the downtime     *)
(* query on hosts west of, on and east of UTC.                             *)
(***************************************************************************)
EXTENDS Integers, Sequences, FiniteSets, TLC

VARIABLES
    projects,        \* self.config['projects'], loaded once
    mode,            \* self.mode: "all" | "monitor" | "engine"
    tz_offset,       \* the host's UTC offset (local time = UTC + tz_offset)
    clock,           \* the last value read from the wall clock (epoch seconds)
    status_lock,     \* self.status_lock: "free" or the thread that holds it
    statuses,        \* self.statuses: name -> status ("none" = no key)
    history,         \* self.history: name -> <<ts, is_unhealthy>>*
    deploy_history,  \* self.deploy_history: name -> ts*
    d_pc,            \* deploy-check loop: position
    d_idx,           \* deploy-check loop: index of the project in run_once
    d_cycle,         \* deploy-check loop: number of completed run_once calls
    d_ts,            \* deploy_project: ts read at line 842
    d_recovery,      \* process_project: inside the health-recovery branch
    health_status,   \* process_project: health_status of line 877 ("" = unset)
    git_env,         \* the command outcomes check_git_status saw this visit
    update_info,     \* process_project: update_info of line 871
    det_class,       \* the branch check_git_status took this visit
    trace,           \* commands run / notifications sent during this visit
    notifications,   \* the messages passed to send_notification this visit
    deploy_ret,      \* value returned by deploy_project this visit
    dlog_at_visit,   \* the project's deploy log when this visit began
    h_pc,            \* health-check loop: position
    h_idx,           \* health-check loop: index of the project in the pass
    h_pass,          \* health-check loop: number of completed passes
    h_status,        \* scheduler: status of line 467
    last_append,     \* per log, the latest append+prune: whose log, the time
                     \* stored, and the time the clock showed
    visited,         \* run_once: the projects passed to process_project so far,
                     \* and whether an exception left process_project
    h_trace,         \* scheduler: what the current pass probed, recorded, raised
    api_pc,          \* request thread: position
    api_req,         \* request thread: the handler, its 'range' argument, now
    tie_up,          \* the side the double (u / c) * 100 lies on at a decimal tie
    pct_args,        \* api_downtime: the tallies (counts, unhealthy) of a project
    pct,             \* api_downtime: the percentages computed from pct_args
    probe_in,        \* check_project_health: the project and what its checks see
    probe_out        \* check_project_health: the dict returned, the calls made

vars == <<projects, mode, tz_offset, clock, status_lock, statuses, history,
          deploy_history, d_pc, d_idx, d_cycle, d_ts, d_recovery,
          health_status, git_env, update_info, det_class, trace,
          notifications, deploy_ret, dlog_at_visit, h_pc, h_idx, h_pass,
          h_status,
          last_append, visited, h_trace, api_pc, api_req, tie_up, pct_args, pct,
          probe_in, probe_out>>

---------------------------------------------------------------------------
(* Bounds of the model *)

MaxTime == 3            \* clock values are 0..MaxTime
MaxDeployCycles == 2    \* run_once calls explored
MaxHealthPasses == 2    \* health-check passes explored
MaxSeriesLen == 2       \* entries of a log when the series queries are explored

---------------------------------------------------------------------------
(* Text *)

Min(S) == CHOOSE x \in S : \A y \in S : x <= y
Max(S) == CHOOSE x \in S : \A y \in S : x >= y

\* str.strip(): drop leading and trailing whitespace
Strip(s) ==
    LET idx == {i \in 1..Len(s) : s[i] # 0}
    IN  IF idx = {} THEN <<>> ELSE SubSeq(s, Min(idx), Max(idx))

\* s[:n]
Take(s, n) == SubSeq(s, 1, IF Len(s) < n THEN Len(s) ELSE n)

\* Python's `x or d` on strings
OrElse(x, d) == IF x = <<>> THEN d ELSE x

\* the slice length of local[:8] / remote[:8]
ShortShaLen == 8

NoKey == <<-1>>                      \* an absent dict key
TxtUnknown == <<85, 110>>            \* "Unknown"
TxtNA == <<78, 65>>                  \* 'N/A'
TxtService == <<65, 68, 83>>         \* 'Auto-Deploy Service'
TxtFetchFailed == <<70, 1>>          \* 'Failed to fetch from remote'
TxtLocalFailed == <<70, 2>>          \* 'Failed to get local commit'
TxtRemoteFailed == <<70, 3>>         \* 'Failed to get remote commit'
TxtBaseFailed == <<70, 4>>           \* 'Failed to get merge base'

---------------------------------------------------------------------------
(* Events of one visit of a project *)

\* a command passed to run_command in phase ev, and whether it succeeded
Cmd(ev, what, ok) == [ev |-> ev, what |-> what, ok |-> ok]
Note(kind) == [ev |-> "notify", what |-> kind, ok |-> TRUE]
Probed(status) == [ev |-> "probe", what |-> status, ok |-> TRUE]
Recorded(log) == [ev |-> "append", what |-> log, ok |-> TRUE]
Raised(what) == [ev |-> "raise", what |-> what, ok |-> FALSE]

\* one step of a health-check pass: a probe that returned, a record made under
\* the lock, or an exception that left the for loop
HEvent(ev, name, what) == [ev |-> ev, name |-> name, what |-> what]

\* the argument of one send_notification call
Message(kind, name, detail, status, msg, author) ==
    [kind |-> kind, name |-> name, detail |-> detail, status |-> status,
     commit_message |-> msg, commit_author |-> author]

---------------------------------------------------------------------------
(* check_git_status *)

None == [tag |-> "None", error |-> NoKey, local |-> NoKey, remote |-> NoKey,
         commit_message |-> NoKey, commit_author |-> NoKey]

ErrorInfo(text) == [None EXCEPT !.tag = "dict", !.error = text]

BehindInfo(local, remote, msg, author) ==
    [None EXCEPT !.tag = "dict", !.local = local, !.remote = remote,
                 !.commit_message = msg, !.commit_author = author]

GitResult(ret, cmds, notes, class) ==
    [ret |-> ret, cmds |-> cmds, notes |-> notes, class |-> class]

\* Classify with the local = base check made first
Classify_BehindFirst(local, remote, base) ==
    IF local = base /\ local = remote THEN "Behind"
    ELSE IF local = remote THEN "UpToDate"
    ELSE IF local = base THEN "Behind"
    ELSE IF remote = base THEN "Ahead"
    ELSE "Diverged"

\* lines 695-714: the classification of the stripped outputs
Classify(local, remote, base) ==
    IF local = remote THEN "UpToDate"
    ELSE IF local = base THEN "Behind"
    ELSE IF remote = base THEN "Ahead"
    ELSE "Diverged"

\* BehindResult with the remote commit id left whole
BehindResult_FullRemote(local, remote, e) ==
    BehindInfo(Take(local, ShortShaLen), remote,
               IF e.msg.ok THEN Strip(e.msg.out) ELSE TxtUnknown,
               IF e.author.ok THEN Strip(e.author.out) ELSE TxtUnknown)

\* lines 702-707: the dict returned for a project behind its remote
BehindResult(local, remote, e) ==
    BehindInfo(Take(local, ShortShaLen), Take(remote, ShortShaLen),
               IF e.msg.ok THEN Strip(e.msg.out) ELSE TxtUnknown,
               IF e.author.ok THEN Strip(e.author.out) ELSE TxtUnknown)

\* ErrorResult without the default text: {'error': output.strip()}
ErrorResult_NoDefault(out, default) == ErrorInfo(Strip(out))

\* lines 673, 679, 684, 689: {'error': output.strip() or '<default>'}
ErrorResult(out, default) == ErrorInfo(OrElse(Strip(out), default))

\* e holds the outcome (ok, out) of each command check_git_status may run
check_git_status(p, e) ==
    LET c1 == <<Cmd("detect", "git fetch", e.fetch.ok)>>
        c2 == Append(c1, Cmd("detect", "git rev-parse @", e.local.ok))
        c3 == Append(c2, Cmd("detect", "git rev-parse @{u}", e.remote.ok))
        c4 == Append(c3, Cmd("detect", "git merge-base", e.base.ok))
        c6 == c4 \o <<Cmd("detect", "git log %B", e.msg.ok),
                      Cmd("detect", "git log %an", e.author.ok)>>
        local == Strip(e.local.out)
        remote == Strip(e.remote.out)
        base == Strip(e.base.out)
        class == Classify(local, remote, base)
    IN  IF ~e.fetch.ok THEN
            GitResult(ErrorResult(e.fetch.out, TxtFetchFailed), c1, <<>>, "Error")
        ELSE IF ~e.local.ok THEN
            GitResult(ErrorResult(e.local.out, TxtLocalFailed), c2, <<>>, "Error")
        ELSE IF ~e.remote.ok THEN
            GitResult(ErrorResult(e.remote.out, TxtRemoteFailed), c3, <<>>, "Error")
        ELSE IF ~e.base.ok THEN
            GitResult(ErrorResult(e.base.out, TxtBaseFailed), c4, <<>>, "Error")
        ELSE IF class = "UpToDate" THEN
            GitResult(None, c4, <<>>, class)
        ELSE IF class = "Behind" THEN
            GitResult(BehindResult(local, remote, e), c6, <<>>, class)
        ELSE IF class = "Ahead" THEN
            GitResult(None, c4, <<>>, class)
        ELSE
            GitResult(None, c4,
                      <<Message("diverged", p.name, <<>>, "", NoKey, NoKey)>>,
                      class)

---------------------------------------------------------------------------
(* pull_changes *)

\* pull_changes giving up when the stash fails
pull_changes_StashFatal(p, e) ==
    LET c1 == <<Cmd("pull", "git diff-index", ~e.dirty)>>
        c2 == IF e.dirty THEN Append(c1, Cmd("pull", "git stash save", e.stash_ok))
              ELSE c1
    IN  IF e.dirty /\ ~e.stash_ok THEN [ret |-> FALSE, cmds |-> c2]
        ELSE [ret |-> e.pull_ok,
              cmds |-> Append(c2, Cmd("pull", "git pull", e.pull_ok))]

\* e.dirty: `git diff-index --quiet` failed; e.stash_ok, e.pull_ok: the
\* outcomes of the stash and of the pull
pull_changes(p, e) ==
    LET c1 == <<Cmd("pull", "git diff-index", ~e.dirty)>>
        c2 == IF e.dirty THEN Append(c1, Cmd("pull", "git stash save", e.stash_ok))
              ELSE c1
    IN  [ret |-> e.pull_ok, cmds |-> Append(c2, Cmd("pull", "git pull", e.pull_ok))]

---------------------------------------------------------------------------
(* run_commands and the deploy methods *)

\* run_commands going on after a failure
run_commands_NoStop(commands, outs, phase) ==
    [ret |-> \A i \in 1..Len(commands) : outs[i],
     cmds |-> [i \in 1..Len(commands) |-> Cmd(phase, commands[i], outs[i])]]

\* outs[i]: whether commands[i] succeeds if it is run
run_commands(commands, outs, phase) ==
    LET failed == {i \in 1..Len(commands) : ~outs[i]}
        n == IF failed = {} THEN Len(commands) ELSE Min(failed)
    IN  IF commands = <<>> THEN [ret |-> TRUE, cmds |-> <<>>]
        ELSE [ret |-> failed = {},
              cmds |-> [i \in 1..n |-> Cmd(phase, commands[i], outs[i])]]

DeployResult(ret, raised, cmds) == [ret |-> ret, raised |-> raised, cmds |-> cmds]

\* deploy_docker_compose returning False when the stop command fails
deploy_docker_compose_StopAborts(p, e) ==
    IF p.method_cfg = "" THEN DeployResult(FALSE, TRUE, <<>>)
    ELSE IF ~e.stop_ok THEN
        DeployResult(FALSE, FALSE, <<Cmd("dispatch", "docker compose down", FALSE)>>)
    ELSE DeployResult(e.start_ok, FALSE,
                      <<Cmd("dispatch", "docker compose down", e.stop_ok),
                        Cmd("dispatch", "docker compose up", e.start_ok)>>)

\* project['docker_compose']['service_name'] raises KeyError when absent
deploy_docker_compose(p, e) ==
    IF p.method_cfg = "" THEN DeployResult(FALSE, TRUE, <<>>)
    ELSE DeployResult(e.start_ok, FALSE,
                      <<Cmd("dispatch", "docker compose down", e.stop_ok),
                        Cmd("dispatch", "docker compose up", e.start_ok)>>)

deploy_systemd(p, e) ==
    IF p.method_cfg = "" THEN DeployResult(FALSE, TRUE, <<>>)
    ELSE DeployResult(e.start_ok, FALSE,
                      <<Cmd("dispatch", "systemctl restart", e.start_ok)>>)

deploy_custom(p, e) ==
    IF p.method_cfg = "" THEN DeployResult(FALSE, TRUE, <<>>)
    ELSE DeployResult(e.start_ok, FALSE,
                      <<Cmd("dispatch", "deploy_script", e.start_ok)>>)

\* Dispatch taking an unrecognised method for a success
Dispatch_UnknownSucceeds(p, e) ==
    IF p.deploy_method = "docker-compose" THEN deploy_docker_compose(p, e)
    ELSE IF p.deploy_method = "systemd" THEN deploy_systemd(p, e)
    ELSE IF p.deploy_method = "custom" THEN deploy_custom(p, e)
    ELSE DeployResult(TRUE, FALSE, <<>>)

\* lines 819-834
Dispatch(p, e) ==
    IF p.deploy_method = "docker-compose" THEN deploy_docker_compose(p, e)
    ELSE IF p.deploy_method = "systemd" THEN deploy_systemd(p, e)
    ELSE IF p.deploy_method = "custom" THEN deploy_custom(p, e)
    ELSE DeployResult(FALSE, FALSE, <<>>)

\* deploy_commands going on to post_deploy after a failed dispatch
deploy_commands_DispatchNotFatal(p, e) ==
    LET pre == run_commands(p.pre_deploy, e.pre, "pre_deploy")
        dis == Dispatch(p, e)
        post == run_commands(p.post_deploy, e.post, "post_deploy")
    IN  IF ~pre.ret THEN DeployResult(FALSE, FALSE, pre.cmds)
        ELSE IF dis.raised THEN
            DeployResult(FALSE, TRUE, pre.cmds \o dis.cmds \o <<Raised("KeyError")>>)
        ELSE DeployResult(TRUE, FALSE, pre.cmds \o dis.cmds \o post.cmds)

\* deploy_commands with a failed post_deploy command failing the deploy
deploy_commands_PostFatal(p, e) ==
    LET pre == run_commands(p.pre_deploy, e.pre, "pre_deploy")
        dis == Dispatch(p, e)
        post == run_commands(p.post_deploy, e.post, "post_deploy")
    IN  IF ~pre.ret THEN DeployResult(FALSE, FALSE, pre.cmds)
        ELSE IF dis.raised THEN
            DeployResult(FALSE, TRUE, pre.cmds \o dis.cmds \o <<Raised("KeyError")>>)
        ELSE IF ~dis.ret THEN DeployResult(FALSE, FALSE, pre.cmds \o dis.cmds)
        ELSE DeployResult(post.ret, FALSE, pre.cmds \o dis.cmds \o post.cmds)

\* deploy_project, lines 807-838: everything before the deploy is recorded.
\* ret = TRUE means line 840 is reached.
deploy_commands(p, e) ==
    LET pre == run_commands(p.pre_deploy, e.pre, "pre_deploy")
        dis == Dispatch(p, e)
        post == run_commands(p.post_deploy, e.post, "post_deploy")
    IN  IF ~pre.ret THEN DeployResult(FALSE, FALSE, pre.cmds)
        ELSE IF dis.raised THEN
            DeployResult(FALSE, TRUE, pre.cmds \o dis.cmds \o <<Raised("KeyError")>>)
        ELSE IF ~dis.ret THEN DeployResult(FALSE, FALSE, pre.cmds \o dis.cmds)
        ELSE DeployResult(TRUE, FALSE, pre.cmds \o dis.cmds \o post.cmds)

---------------------------------------------------------------------------
(* The history logs *)

\* lines 847-848: while dlist and dlist[0] < cutoff: dlist.pop(0)
RECURSIVE PruneDeploy(_, _)
PruneDeploy(dlist, cutoff) ==
    IF dlist # <<>> /\ Head(dlist) < cutoff
    THEN PruneDeploy(Tail(dlist), cutoff)
    ELSE dlist

\* lines 479-480: while hlist and hlist[0][0] < cutoff: hlist.pop(0)
RECURSIVE PruneHealth(_, _)
PruneHealth(hlist, cutoff) ==
    IF hlist # <<>> /\ Head(hlist)[1] < cutoff
    THEN PruneHealth(Tail(hlist), cutoff)
    ELSE hlist

\* self.history_retention_seconds, in clock units
RetentionSeconds == 1

\* RecordDeploy with the new entry put at the head of the list
RecordDeploy_Prepend(dlist, ts) ==
    PruneDeploy(<<ts>> \o dlist, ts - RetentionSeconds)

\* lines 844-848
RecordDeploy(dlist, ts) ==
    PruneDeploy(Append(dlist, ts), ts - RetentionSeconds)

\* RecordHealth with only the status 'unhealthy' flagged
RecordHealth_UnknownHealthy(hlist, ts, status) ==
    PruneHealth(Append(hlist, <<ts, IF status = "unhealthy" THEN 1 ELSE 0>>),
                ts - RetentionSeconds)

\* RecordHealth without the pruning loop
RecordHealth_NoPrune(hlist, ts, status) ==
    Append(hlist, <<ts, IF status # "healthy" THEN 1 ELSE 0>>)

\* lines 473-480
RecordHealth(hlist, ts, status) ==
    PruneHealth(Append(hlist, <<ts, IF status # "healthy" THEN 1 ELSE 0>>),
                ts - RetentionSeconds)

\* int(datetime.utcnow().timestamp()): the naive UTC wall time is read back as
\* local time, so the host's UTC offset is subtracted from the epoch time
UtcNowTimestamp(now, offset) == now - offset

---------------------------------------------------------------------------
(* The series queries: api_downtime and api_deployments *)

\* request.args: the query parameters, a sequence of <<key, value>>
ArgsGet(args, key, default) ==
    IF \E i \in DOMAIN args : args[i][1] = key
    THEN args[Min({i \in DOMAIN args : args[i][1] = key})][2]
    ELSE default

WindowOf(total_seconds, bucket_size) ==
    [total_seconds |-> total_seconds, bucket_size |-> bucket_size]

\* Window with the '3d' branch left out
Window_No3d(range_key) ==
    IF range_key = "7d" THEN WindowOf(7 * 24 * 3600, 3600)
    ELSE IF range_key = "24h" THEN WindowOf(24 * 3600, 300)
    ELSE IF range_key = "1h" THEN WindowOf(3600, 60)
    ELSE WindowOf(7 * 24 * 3600, 3600)

\* lines 317-332 and 378-392
Window(range_key) ==
    IF range_key = "7d" THEN WindowOf(7 * 24 * 3600, 3600)
    ELSE IF range_key = "3d" THEN WindowOf(3 * 24 * 3600, 3600)
    ELSE IF range_key = "24h" THEN WindowOf(24 * 3600, 300)
    ELSE IF range_key = "1h" THEN WindowOf(3600, 60)
    ELSE WindowOf(7 * 24 * 3600, 3600)

\* lines 334-336 and 394-395
Frame(range_key, now) ==
    LET w == Window(range_key)
    IN  [now |-> now,
         bucket_size |-> w.bucket_size,
         num_buckets |-> w.total_seconds \div w.bucket_size,
         start_ts |-> now - w.total_seconds]

\* Labels with each label the last second before the next bucket
Labels_BucketEnd(f) == [i \in 1..f.num_buckets |-> f.start_ts + i * f.bucket_size]

\* lines 337-340 and 396: one label per bucket, the bucket's first second.
\* A label is kept as that epoch second; the code prints it as ISO-8601 UTC.
Labels(f) == [i \in 1..f.num_buckets |-> f.start_ts + (i - 1) * f.bucket_size]

Zeros(n) == [i \in 1..n |-> 0]

\* lines 349-359: the loop over the entries of one health log; the list
\* indexes of the code are one less than the sequence indexes here
RECURSIVE TallyHealth(_, _, _)
TallyHealth(entries, f, acc) ==
    IF entries = <<>> THEN acc
    ELSE LET ts == Head(entries)[1]
             is_unhealthy == Head(entries)[2]
             idx == (ts - f.start_ts) \div f.bucket_size
         IN  IF ts < f.start_ts THEN TallyHealth(Tail(entries), f, acc)
             ELSE IF ts >= f.now THEN TallyHealth(Tail(entries), f, acc)
             ELSE IF idx < 0 \/ idx >= f.num_buckets
                  THEN TallyHealth(Tail(entries), f, acc)
             ELSE TallyHealth(Tail(entries), f,
                     [counts |-> [acc.counts EXCEPT ![idx + 1] = @ + 1],
                      unhealthy |-> IF is_unhealthy # 0
                                    THEN [acc.unhealthy EXCEPT ![idx + 1] = @ + 1]
                                    ELSE acc.unhealthy])

\* lines 403-408: the loop over the entries of one deploy log
RECURSIVE TallyDeploys(_, _, _)
TallyDeploys(dlist, f, counts) ==
    IF dlist = <<>> THEN counts
    ELSE LET ts == Head(dlist)
             idx == (ts - f.start_ts) \div f.bucket_size
         IN  IF ts < f.start_ts \/ ts >= f.now
             THEN TallyDeploys(Tail(dlist), f, counts)
             ELSE IF 0 <= idx /\ idx < f.num_buckets
                  THEN TallyDeploys(Tail(dlist), f, [counts EXCEPT ![idx + 1] = @ + 1])
             ELSE TallyDeploys(Tail(dlist), f, counts)

\* round(x, 2) of the double nearest to num / den, in hundredths.  Where
\* the quotient is not halfway between two hundredths the double rounds as
\* the quotient does.  Where it is halfway (possible only if den is a
\* multiple of 32) the double product lies on the tie or on either side of
\* it, depending on the rounding errors of the division and the
\* multiplication, and round() gives the upper hundredth (up) or the lower.
RoundHundredths(num, den, up) ==
    LET q == (num * 100) \div den
        r == (num * 100) % den
    IN  IF 2 * r > den \/ (2 * r = den /\ up) THEN q + 1 ELSE q

\* Percent without rounding to the nearest: the hundredths are cut off
Percent_Truncated(c, u, up) == IF c = 0 THEN 0 ELSE (u * 10000) \div c

\* lines 362-366: 0 if c == 0, else round((u / c) * 100, 2).  The value is
\* kept in hundredths of a percent: 10000 is 100.0, 1 is 0.01.
Percent(c, u, up) == IF c = 0 THEN 0 ELSE RoundHundredths(u * 100, c, up)

\* lines 361-369
Percentages(counts, unhealthy, up) ==
    [i \in DOMAIN counts |-> Percent(counts[i], unhealthy[i], up)]

\* self.statuses.keys()
StatusKeys(st) == {n \in DOMAIN st : st[n] # "none"}

\* labels and projects are the reply.  counts holds, for each project of the
\* reply, the local list `counts` as it stands after the loop over the
\* entries, and stored holds the timestamps every log held when the handler
\* had the lock; neither is in the reply.
Response(labels, series, counts, stored) ==
    [labels |-> labels, projects |-> series, counts |-> counts, stored |-> stored]

\* api_downtime, lines 342-371
api_downtime(f, st, hist, up) ==
    LET tally == [n \in StatusKeys(st) |->
                    TallyHealth(hist[n], f,
                                [counts |-> Zeros(f.num_buckets),
                                 unhealthy |-> Zeros(f.num_buckets)])]
    IN  Response(Labels(f),
                 [n \in StatusKeys(st) |->
                     Percentages(tally[n].counts, tally[n].unhealthy, up)],
                 [n \in StatusKeys(st) |-> tally[n].counts],
                 [n \in DOMAIN hist |-> [i \in DOMAIN hist[n] |-> hist[n][i][1]]])

\* api_deployments, lines 398-411
api_deployments(f, st, dhist) ==
    LET counts == [n \in StatusKeys(st) |->
                     TallyDeploys(dhist[n], f, Zeros(f.num_buckets))]
    IN  Response(Labels(f), counts, counts, dhist)

\* api_health, lines 306-309
api_health(st) ==
    Response(<<>>, [n \in StatusKeys(st) |-> st[n]], <<>>, <<>>)

---------------------------------------------------------------------------
(* check_project_health, to the level of the status it returns *)

\* the probe did not return: the handler of line 659 reads explicit_container,
\* which is unbound when line 498 or 499 raised, and raises UnboundLocalError
Escaped == "escaped"

\* obs: what the strategy's single observation showed: "ok" (expected HTTP
\* status, container up, unit active, script exit 0), "bad", or "raise".
\* p.health is the shape of project['health']: "absent", "mapping", or "text"
\* (a value that is not a mapping, on which line 499 calls .get)
check_project_health(p, obs) ==
    IF p.health = "text" THEN Escaped
    ELSE IF p.health_url THEN (IF obs = "ok" THEN "healthy" ELSE "unhealthy")
    ELSE IF p.deploy_method = "docker-compose" THEN
        IF p.method_cfg = "" THEN "unknown"
        ELSE IF obs = "ok" THEN "healthy" ELSE "unhealthy"
    ELSE IF p.deploy_method = "systemd" THEN
        IF p.method_cfg = "" THEN "unknown"
        ELSE IF obs = "ok" THEN "healthy" ELSE "unhealthy"
    ELSE IF p.deploy_method = "custom" THEN
        IF ~p.health_script THEN "unknown"
        ELSE IF obs = "ok" THEN "healthy" ELSE "unhealthy"
    ELSE "unknown"

ProbeObs == {"ok", "bad", "raise"}

\* should_monitor_project
should_monitor_project(p) == p.enabled \/ p.monitor_only

---------------------------------------------------------------------------
(* Configurations *)

Project(name, enabled, monitor_only, method, cfg, pre, post, url, script) ==
    [name |-> name, enabled |-> enabled, monitor_only |-> monitor_only,
     deploy_method |-> method, method_cfg |-> cfg,
     pre_deploy |-> pre, post_deploy |-> post,
     health_url |-> url, health_script |-> script,
     health |-> IF url \/ script THEN "mapping" ELSE "absent",
     ports |-> FALSE]

PWeb == Project("web", TRUE, FALSE, "docker-compose", "web",
                <<"migrate", "assets">>, <<"warmup", "report">>, FALSE, FALSE)
PApi == Project("api", TRUE, FALSE, "systemd", "api.service",
                <<>>, <<"report">>, TRUE, FALSE)
PJob == Project("job", TRUE, FALSE, "custom", "deploy.sh",
                <<"migrate">>, <<>>, FALSE, TRUE)
PBad == Project("bad", TRUE, FALSE, "kubernetes", "",
                <<"migrate">>, <<"report">>, FALSE, FALSE)
POff == Project("off", FALSE, TRUE, "docker-compose", "off",
                <<>>, <<>>, FALSE, FALSE)
PGone == Project("gone", FALSE, FALSE, "systemd", "gone.service",
                 <<>>, <<>>, FALSE, FALSE)
PDb == Project("db", TRUE, FALSE, "docker-compose", "db",
               <<>>, <<"report">>, FALSE, FALSE)
PNoCfg == Project("nocfg", TRUE, FALSE, "docker-compose", "",
                  <<>>, <<"report">>, FALSE, FALSE)

\* project['health'] is a string, not a mapping; 'ports' is configured, so
\* that resolve_project_ports returns at line 187 and __init__ completes
PText == [Project("text", TRUE, FALSE, "docker-compose", "text",
                  <<>>, <<>>, FALSE, FALSE)
            EXCEPT !.health = "text", !.ports = TRUE]

Names == {"web", "api", "job", "bad", "off", "gone", "nocfg", "db", "text"}

\* the configurations explored with the deploy-check loop alone
EngineConfigs == {<<PWeb, PApi>>, <<PJob, PBad>>, <<POff, PNoCfg, PGone>>}

\* the configurations explored with both loops running
AllConfigs == {<<PDb, PGone>>, <<POff>>, <<PText, POff>>}

TzOffsets == {0, 1}

---------------------------------------------------------------------------
(* Outcomes of the external commands *)

Out(ok, out) == [ok |-> ok, out |-> out]

ShaA == <<1, 1, 1, 1, 1, 1, 1, 1, 1, 1>>
ShaB == <<1, 1, 1, 1, 1, 1, 1, 1, 2, 2>>     \* shares its first 8 with ShaA
ShaC == <<3, 3, 3, 3, 3, 3, 3, 3, 3, 3>>
Shas == {ShaA, ShaB, ShaC}

Line(s) == s \o <<0>>                        \* s followed by a newline
MsgOut == <<102, 105, 120, 0, 98, 117, 103, 0>>   \* "fix bug\n"
AuthorOut == <<97, 108, 105, 99, 101, 0>>         \* "alice\n"
ErrOut == <<102, 97, 116, 97, 108, 0>>            \* "fatal\n"
ErrOuts == {<<>>, <<0>>, ErrOut}

GitOk(l, r, b, mok, aok) ==
    [fetch |-> Out(TRUE, <<>>), local |-> Out(TRUE, Line(l)),
     remote |-> Out(TRUE, Line(r)), base |-> Out(TRUE, Line(b)),
     msg |-> Out(mok, IF mok THEN MsgOut ELSE ErrOut),
     author |-> Out(aok, IF aok THEN AuthorOut ELSE ErrOut)]

GitFail(stage, out) ==
    [GitOk(ShaA, ShaA, ShaA, TRUE, TRUE) EXCEPT ![stage] = Out(FALSE, out)]

\* the git log commands are read only when the project is behind
\* <<local, remote, base>>: the merge-base of a commit with itself is itself
Triples == {t \in Shas \X Shas \X Shas : t[1] = t[2] => t[3] = t[1]}

GitEnvs ==
    {GitOk(t[1], t[2], t[3], TRUE, TRUE) : t \in Triples}
    \cup {GitOk(t[1], t[2], t[3], mok, aok) :
             t \in {u \in Triples : u[1] = u[3] /\ u[1] # u[2]},
             mok \in BOOLEAN, aok \in BOOLEAN}
    \cup {GitFail(st, o) : st \in {"fetch", "local", "remote", "base"},
                           o \in ErrOuts}

\* with both loops running: one outcome per branch of check_git_status
GitEnvsAll ==
    {GitOk(ShaA, ShaA, ShaA, TRUE, TRUE), GitOk(ShaA, ShaC, ShaA, TRUE, TRUE),
     GitOk(ShaC, ShaA, ShaA, TRUE, TRUE), GitOk(ShaA, ShaB, ShaC, TRUE, TRUE),
     GitFail("fetch", ErrOut)}

PullEnvs ==
    {[dirty |-> d, stash_ok |-> s, pull_ok |-> k] :
        d \in BOOLEAN, s \in BOOLEAN, k \in BOOLEAN}

\* with both loops running: a clean tree, the pull succeeds or fails
PullEnvsAll ==
    {[dirty |-> FALSE, stash_ok |-> TRUE, pull_ok |-> k] : k \in BOOLEAN}

DeployEnvs(p) ==
    [pre : [1..Len(p.pre_deploy) -> BOOLEAN], stop_ok : BOOLEAN,
     start_ok : BOOLEAN, post : [1..Len(p.post_deploy) -> BOOLEAN]]

\* with both loops running: every hook succeeds, the start succeeds or fails
DeployEnvsAll(p) ==
    [pre : {[i \in 1..Len(p.pre_deploy) |-> TRUE]}, stop_ok : {TRUE},
     start_ok : BOOLEAN, post : {[i \in 1..Len(p.post_deploy) |-> TRUE]}]

---------------------------------------------------------------------------
(* Initial state: after AutoDeployService.__init__ *)

NoAppend == [name |-> "", ts |-> 0, at |-> 0]
NoRequest == [handler |-> "", args |-> <<>>, now |-> 0]
NoProbeInput == [project |-> <<>>, env |-> <<>>]
NoResult == [status |-> "", details |-> <<>>, calls |-> <<>>]

\* everything but the shared state and the clock
InitLocal(cfg, m, tz) ==
    /\ projects = cfg
    /\ mode = m
    /\ tz_offset = tz
    /\ status_lock = "free"
    /\ d_pc = "visit"
    /\ d_idx = 1
    /\ d_cycle = 0
    /\ d_ts = 0
    /\ d_recovery = FALSE
    /\ health_status = ""
    /\ git_env = GitOk(ShaA, ShaA, ShaA, TRUE, TRUE)
    /\ update_info = None
    /\ det_class = ""
    /\ trace = <<>>
    /\ notifications = <<>>
    /\ deploy_ret = ""
    /\ dlog_at_visit = <<>>
    /\ h_pc = IF m \in {"all", "monitor"} THEN "probe" ELSE "off"
    /\ h_idx = 1
    /\ h_pass = 0
    /\ h_status = ""
    /\ last_append = [health |-> NoAppend, deploy |-> NoAppend]
    /\ visited = <<>>
    /\ h_trace = <<>>
    /\ api_pc = IF m \in {"all", "monitor"} THEN "idle" ELSE "off"
    /\ api_req = NoRequest
    /\ pct = <<>>
    /\ probe_out = NoResult

\* no tallies drawn; the logs explored hold fewer than 32 entries, so no
\* percentage of theirs is at a tie
NoTallies == pct_args = [counts |-> <<>>, unhealthy |-> <<>>] /\ tie_up = FALSE

\* no probe is followed in detail
NoProbe == probe_in = NoProbeInput

InitWith(cfg, m, tz) ==
    /\ InitLocal(cfg, m, tz)
    /\ NoTallies
    /\ NoProbe
    /\ clock = 0
    /\ statuses = [n \in Names |-> "none"]
    /\ history = [n \in Names |-> <<>>]
    /\ deploy_history = [n \in Names |-> <<>>]

Init == \E cfg \in AllConfigs, tz \in TzOffsets : InitWith(cfg, "all", tz)

InitEngine == \E cfg \in EngineConfigs : InitWith(cfg, "engine", 0)

---------------------------------------------------------------------------
(* The deploy-check loop: run, run_once, process_project *)

sharedVars == <<statuses, history, deploy_history, last_append>>
cfgVars == <<projects, mode, tz_offset>>
pctVars == <<tie_up, pct_args, pct>>
probeVars == <<probe_in, probe_out>>
apiVars == <<api_pc, api_req, pctVars, probeVars>>
healthVars == <<h_pc, h_idx, h_pass, h_status, h_trace>>
visitVars == <<d_recovery, health_status, git_env, update_info, det_class,
               trace, notifications, deploy_ret, dlog_at_visit>>

\* dict.get(key, default)
Get(v, default) == IF v = NoKey THEN default ELSE v

\* truthiness of update_info.get('error')
HasError(info) == info.error # NoKey /\ info.error # <<>>

Notes(msgs) == [i \in 1..Len(msgs) |-> Note(msgs[i].kind)]

\* process_project, lines 873-903, after check_git_status returned r:
\* where the visit goes next, and what it has logged and notified so far
AfterDetect(p, r) ==
    LET failed == Message("git_check_failed", p.name, r.ret.error, "", NoKey, NoKey)
    IN  IF r.ret = None THEN
            [pc |-> IF p.deploy_method = "docker-compose" THEN "probe" ELSE "done",
             trace |-> r.cmds \o Notes(r.notes), notes |-> r.notes]
        ELSE IF HasError(r.ret) THEN
            [pc |-> "done", trace |-> r.cmds \o Notes(r.notes) \o <<Note(failed.kind)>>,
             notes |-> Append(r.notes, failed)]
        ELSE IF r.ret.local = NoKey \/ r.ret.remote = NoKey THEN
            [pc |-> "done", trace |-> r.cmds \o Notes(r.notes) \o <<Raised("KeyError")>>,
             notes |-> r.notes]
        ELSE
            [pc |-> "pull", trace |-> r.cmds \o Notes(r.notes), notes |-> r.notes]

\* process_project, lines 856-903: the enabled and path checks, then detection
BeginVisit(E) ==
    /\ d_pc = "visit"
    /\ LET p == projects[d_idx]
       IN  \/ /\ ~p.enabled
              /\ d_pc' = "done"
              /\ UNCHANGED <<git_env, update_info, det_class, trace, notifications>>
           \/ /\ p.enabled
              /\ d_pc' = "done"       \* os.path.exists(project['path']) is false
              /\ UNCHANGED <<git_env, update_info, det_class, trace, notifications>>
           \/ /\ p.enabled
              /\ \E e \in E :
                    LET r == check_git_status(p, e)
                        a == AfterDetect(p, r)
                    IN  /\ git_env' = e
                        /\ update_info' = r.ret
                        /\ det_class' = r.class
                        /\ trace' = a.trace
                        /\ notifications' = a.notes
                        /\ d_pc' = a.pc
    /\ visited' = Append(visited, [name |-> projects[d_idx].name, raised |-> FALSE])
    /\ UNCHANGED <<cfgVars, apiVars, clock, status_lock, sharedVars, healthVars,
                   d_idx, d_cycle, d_ts, d_recovery, health_status, deploy_ret,
                   dlog_at_visit>>

\* RecoveryProbe storing the status it read in self.statuses
RecoveryProbe_StoresStatus ==
    /\ d_pc = "probe"
    /\ \E obs \in ProbeObs :
          LET st == check_project_health(projects[d_idx], obs)
          IN  IF st = Escaped THEN
                  /\ trace' = Append(trace, Raised("UnboundLocalError"))
                  /\ d_pc' = "done"
                  /\ UNCHANGED <<health_status, d_recovery, statuses>>
              ELSE
                  /\ health_status' = st
                  /\ statuses' = [statuses EXCEPT ![projects[d_idx].name] = st]
                  /\ trace' = Append(trace, Probed(st))
                  /\ d_recovery' = (st # "healthy")
                  /\ d_pc' = IF st # "healthy" THEN "deploy" ELSE "done"
    /\ UNCHANGED <<cfgVars, apiVars, clock, status_lock, history, deploy_history,
                   last_append, healthVars,
                   d_idx, d_cycle, d_ts, visited, git_env, update_info, det_class,
                   notifications, deploy_ret, dlog_at_visit>>

\* process_project, lines 875-884: the probe of an up-to-date docker-compose project
RecoveryProbe ==
    /\ d_pc = "probe"
    /\ \E obs \in ProbeObs :
          LET st == check_project_health(projects[d_idx], obs)
          IN  IF st = Escaped THEN
                  /\ trace' = Append(trace, Raised("UnboundLocalError"))
                  /\ d_pc' = "done"
                  /\ UNCHANGED <<health_status, d_recovery>>
              ELSE
                  /\ health_status' = st
                  /\ trace' = Append(trace, Probed(st))
                  /\ d_recovery' = (st # "healthy")
                  /\ d_pc' = IF st # "healthy" THEN "deploy" ELSE "done"
    /\ UNCHANGED <<cfgVars, apiVars, clock, status_lock, sharedVars, healthVars,
                   d_idx, d_cycle, d_ts, visited, git_env, update_info, det_class,
                   notifications, deploy_ret, dlog_at_visit>>

\* process_project, lines 905-908
Pull(E) ==
    /\ d_pc = "pull"
    /\ \E e \in E :
          LET p == projects[d_idx]
              r == pull_changes(p, e)
              failed == Message("pull_failed", p.name, <<>>, "", NoKey, NoKey)
          IN  IF r.ret
              THEN /\ trace' = trace \o r.cmds
                   /\ d_pc' = "deploy"
                   /\ UNCHANGED notifications
              ELSE /\ trace' = trace \o r.cmds \o <<Note(failed.kind)>>
                   /\ notifications' = Append(notifications, failed)
                   /\ d_pc' = "done"
    /\ UNCHANGED <<cfgVars, apiVars, clock, status_lock, sharedVars, healthVars,
                   d_idx, d_cycle, d_ts, visited, d_recovery, health_status,
                   git_env, update_info, det_class, deploy_ret, dlog_at_visit>>

\* DeployMessage with the success message built without update_info
DeployMessage_NoCommit(p, ok, recovery, info, st) ==
    IF recovery THEN
        Message(IF ok THEN "recovered" ELSE "recovery_failed", p.name, <<>>, st,
                NoKey, NoKey)
    ELSE IF ok THEN Message("deployed", p.name, <<>>, "", TxtNA, TxtService)
    ELSE Message("deploy_failed", p.name, <<>>, "", NoKey, NoKey)

\* the message process_project sends after deploy_project returned ok
DeployMessage(p, ok, recovery, info, st) ==
    IF recovery THEN
        Message(IF ok THEN "recovered" ELSE "recovery_failed", p.name, <<>>, st,
                NoKey, NoKey)
    ELSE IF ok THEN
        Message("deployed", p.name, <<>>, "",
                Get(info.commit_message, TxtNA), Get(info.commit_author, TxtService))
    ELSE Message("deploy_failed", p.name, <<>>, "", NoKey, NoKey)

\* deploy_project, lines 807-842, and for a failed deploy the notification of
\* process_project (lines 889-892, 917-920)
Deploy(everyOutcome) ==
    /\ d_pc = "deploy"
    /\ \E e \in IF everyOutcome THEN DeployEnvs(projects[d_idx])
                ELSE DeployEnvsAll(projects[d_idx]) :
          LET p == projects[d_idx]
              r == deploy_commands(p, e)
              failed == DeployMessage(p, FALSE, d_recovery, update_info, health_status)
          IN  IF r.raised THEN
                  /\ trace' = trace \o r.cmds
                  /\ deploy_ret' = "raised"
                  /\ d_pc' = "done"
                  /\ UNCHANGED <<notifications, clock, d_ts>>
              ELSE IF ~r.ret THEN
                  /\ trace' = trace \o r.cmds \o <<Note(failed.kind)>>
                  /\ notifications' = Append(notifications, failed)
                  /\ deploy_ret' = "False"
                  /\ d_pc' = "done"
                  /\ UNCHANGED <<clock, d_ts>>
              ELSE
                  /\ trace' = trace \o r.cmds
                  /\ \E t \in clock..MaxTime : clock' = t /\ d_ts' = t
                  /\ d_pc' = "lock"
                  /\ UNCHANGED <<notifications, deploy_ret>>
    /\ UNCHANGED <<cfgVars, apiVars, status_lock, sharedVars, healthVars, d_idx,
                   d_cycle, visited, d_recovery, health_status, git_env,
                   update_info, det_class, dlog_at_visit>>

\* deploy_project, line 843: with self.status_lock
DeployAcquire ==
    /\ d_pc = "lock"
    /\ status_lock = "free"
    /\ status_lock' = "deploy"
    /\ d_pc' = "record"
    /\ UNCHANGED <<cfgVars, apiVars, clock, sharedVars, healthVars, d_idx, d_cycle,
                   d_ts, visited, visitVars>>

\* deploy_project, lines 844-852: the append and the prune, the lock released
\* on leaving the with block, and True returned
DeployRecord ==
    /\ d_pc = "record"
    /\ LET p == projects[d_idx]
       IN  /\ deploy_history' =
                 [deploy_history EXCEPT ![p.name] = RecordDeploy(@, d_ts)]
           /\ last_append' =
                 [last_append EXCEPT
                     !.deploy = [name |-> p.name, ts |-> d_ts, at |-> d_ts]]
           /\ trace' = Append(trace, Recorded("deploy"))
    /\ status_lock' = "free"
    /\ deploy_ret' = "True"
    /\ d_pc' = "notify"
    /\ UNCHANGED <<cfgVars, apiVars, clock, statuses, history, healthVars, d_idx,
                   d_cycle, d_ts, visited, d_recovery, health_status, git_env,
                   update_info, det_class, notifications, dlog_at_visit>>

\* process_project, lines 885-888 and 913-916: the notification of a deploy
\* that returned True
DeployNotify ==
    /\ d_pc = "notify"
    /\ LET sent == DeployMessage(projects[d_idx], TRUE, d_recovery, update_info,
                                 health_status)
       IN  /\ trace' = Append(trace, Note(sent.kind))
           /\ notifications' = Append(notifications, sent)
    /\ d_pc' = "done"
    /\ UNCHANGED <<cfgVars, apiVars, clock, status_lock, sharedVars, healthVars,
                   d_idx, d_cycle, d_ts, visited, d_recovery, health_status,
                   git_env, update_info, det_class, deploy_ret, dlog_at_visit>>

\* run_once, lines 931-939: on to the next project, or the cycle is over
\* an exception left process_project
VisitRaised == \E i \in DOMAIN trace : trace[i].ev = "raise"

\* NextProject with the for loop left when process_project has raised
NextProject_StopOnRaise ==
    /\ d_pc = "done"
    /\ IF d_idx < Len(projects) /\ ~VisitRaised
       THEN d_idx' = d_idx + 1 /\ d_pc' = "visit" /\ UNCHANGED d_cycle
       ELSE d_idx' = 1 /\ d_pc' = "sleep" /\ d_cycle' = d_cycle + 1
    /\ d_ts' = 0
    /\ d_recovery' = FALSE
    /\ health_status' = ""
    /\ git_env' = GitOk(ShaA, ShaA, ShaA, TRUE, TRUE)
    /\ update_info' = None
    /\ det_class' = ""
    /\ trace' = <<>>
    /\ notifications' = <<>>
    /\ deploy_ret' = ""
    /\ dlog_at_visit' = deploy_history[projects[d_idx'].name]
    /\ visited' = [visited EXCEPT ![Len(visited)].raised = VisitRaised]
    /\ UNCHANGED <<cfgVars, apiVars, clock, status_lock, sharedVars, healthVars>>

\* lines 931-936: the next iteration of run_once's for loop, whether
\* process_project returned or raised; after the last project the cycle ends
NextProject ==
    /\ d_pc = "done"
    /\ IF d_idx < Len(projects)
       THEN d_idx' = d_idx + 1 /\ d_pc' = "visit" /\ UNCHANGED d_cycle
       ELSE d_idx' = 1 /\ d_pc' = "sleep" /\ d_cycle' = d_cycle + 1
    /\ d_ts' = 0
    /\ d_recovery' = FALSE
    /\ health_status' = ""
    /\ git_env' = GitOk(ShaA, ShaA, ShaA, TRUE, TRUE)
    /\ update_info' = None
    /\ det_class' = ""
    /\ trace' = <<>>
    /\ notifications' = <<>>
    /\ deploy_ret' = ""
    /\ dlog_at_visit' = deploy_history[projects[d_idx'].name]
    /\ visited' = [visited EXCEPT ![Len(visited)].raised = VisitRaised]
    /\ UNCHANGED <<cfgVars, apiVars, clock, status_lock, sharedVars, healthVars>>

\* run, lines 954-958: time.sleep(interval), then run_once again
NextCycle ==
    /\ d_pc = "sleep"
    /\ d_cycle < MaxDeployCycles
    /\ d_pc' = "visit"
    /\ visited' = <<>>
    /\ UNCHANGED <<cfgVars, apiVars, clock, status_lock, sharedVars, healthVars,
                   d_idx, d_cycle, d_ts, visitVars>>

NextEngine ==
    \/ BeginVisit(GitEnvs)
    \/ RecoveryProbe
    \/ Pull(PullEnvs)
    \/ Deploy(TRUE)
    \/ DeployAcquire
    \/ DeployRecord
    \/ DeployNotify
    \/ NextProject
    \/ NextCycle

SpecEngine == InitEngine /\ [][NextEngine]_vars

---------------------------------------------------------------------------
(* The health-check loop: start_health_scheduler.scheduler *)

deployVars == <<d_pc, d_idx, d_cycle, d_ts, visited, visitVars>>

\* the for loop of lines 461-481 moves on; after the last project, line 481
HealthAdvance ==
    IF h_idx < Len(projects)
    THEN h_idx' = h_idx + 1 /\ h_pc' = "probe" /\ UNCHANGED h_pass
    ELSE h_idx' = 1 /\ h_pc' = "sleep" /\ h_pass' = h_pass + 1

\* lines 482-484: an exception left the for loop; the pass is over, and the
\* while loop starts the next one after the sleep
HealthAbort == h_idx' = 1 /\ h_pc' = "sleep" /\ h_pass' = h_pass + 1

\* lines 462-468.  Every configured name is in self.project_ports after
\* __init__ (lines 242-246), so line 466 is not reached.
HealthProbe ==
    /\ h_pc = "probe"
    /\ LET p == projects[h_idx]
       IN  IF ~should_monitor_project(p)
           THEN HealthAdvance /\ UNCHANGED <<h_status, h_trace>>
           ELSE \E obs \in ProbeObs :
                   LET st == check_project_health(p, obs)
                   IN  IF st = Escaped THEN
                           /\ h_trace' = Append(h_trace,
                                  HEvent("raise", p.name, "UnboundLocalError"))
                           /\ HealthAbort
                           /\ UNCHANGED h_status
                       ELSE
                           /\ h_status' = st
                           /\ h_trace' = Append(h_trace, HEvent("probe", p.name, st))
                           /\ h_pc' = "lock"
                           /\ UNCHANGED <<h_idx, h_pass>>
    /\ UNCHANGED <<cfgVars, apiVars, clock, status_lock, sharedVars, deployVars>>

\* line 469: with self.status_lock
HealthAcquire ==
    /\ h_pc = "lock"
    /\ status_lock = "free"
    /\ status_lock' = "health"
    /\ h_pc' = "record"
    /\ UNCHANGED <<cfgVars, apiVars, clock, sharedVars, deployVars, h_idx, h_pass,
                   h_status, h_trace>>

\* HealthRecord appending the timestamp to the deploy log as well
HealthRecord_AlsoDeployLog ==
    /\ h_pc = "record"
    /\ \E t \in clock..MaxTime :
          LET name == projects[h_idx].name
              ts == UtcNowTimestamp(t, tz_offset)
          IN  /\ clock' = t
              /\ statuses' = [statuses EXCEPT ![name] = h_status]
              /\ history' = [history EXCEPT ![name] = RecordHealth(@, ts, h_status)]
              /\ last_append' =
                    [last_append EXCEPT
                        !.health = [name |-> name, ts |-> ts, at |-> t]]
              /\ h_trace' = Append(h_trace, HEvent("record", name, h_status))
    /\ status_lock' = "free"
    /\ h_status' = ""
    /\ HealthAdvance
    /\ deploy_history' = [deploy_history EXCEPT ![projects[h_idx].name] = Append(@, clock')]
    /\ UNCHANGED <<cfgVars, apiVars, deployVars>>

\* lines 470-480
HealthRecord ==
    /\ h_pc = "record"
    /\ \E t \in clock..MaxTime :
          LET name == projects[h_idx].name
              ts == UtcNowTimestamp(t, tz_offset)
          IN  /\ clock' = t
              /\ statuses' = [statuses EXCEPT ![name] = h_status]
              /\ history' = [history EXCEPT ![name] = RecordHealth(@, ts, h_status)]
              /\ last_append' =
                    [last_append EXCEPT
                        !.health = [name |-> name, ts |-> ts, at |-> t]]
              /\ h_trace' = Append(h_trace, HEvent("record", name, h_status))
    /\ status_lock' = "free"
    /\ h_status' = ""
    /\ HealthAdvance
    /\ UNCHANGED <<cfgVars, apiVars, deploy_history, deployVars>>

\* line 481: time.sleep(interval), then the next pass
HealthNextPass ==
    /\ h_pc = "sleep"
    /\ h_pass < MaxHealthPasses
    /\ h_pc' = "probe"
    /\ h_trace' = <<>>
    /\ UNCHANGED <<cfgVars, apiVars, clock, status_lock, sharedVars, deployVars,
                   h_idx, h_pass, h_status>>

Next ==
    \/ BeginVisit(GitEnvsAll)
    \/ RecoveryProbe
    \/ Pull(PullEnvsAll)
    \/ Deploy(FALSE)
    \/ DeployAcquire
    \/ DeployRecord
    \/ DeployNotify
    \/ NextProject
    \/ NextCycle
    \/ HealthProbe
    \/ HealthAcquire
    \/ HealthRecord
    \/ HealthNextPass

Spec == Init /\ [][Next]_vars

---------------------------------------------------------------------------
(* The request thread: api_health, api_downtime, api_deployments *)

loopVars == <<deployVars, healthVars>>

Handlers == {"api_health", "api_downtime", "api_deployments"}

\* lines 314-340 and 375-396: a request arrives; the handler reads its
\* argument and the clock before it asks for the lock
ApiRequest(H, A, T) ==
    /\ api_pc = "idle"
    /\ \E h \in H, a \in A, t \in T :
          /\ t >= clock
          /\ IF h = "api_health"
             THEN api_req' = [handler |-> h, args |-> <<>>, now |-> 0]
                  /\ UNCHANGED clock
             ELSE api_req' = [handler |-> h, args |-> a, now |-> t]
                  /\ clock' = t
    /\ api_pc' = "lock"
    /\ UNCHANGED <<cfgVars, status_lock, sharedVars, loopVars, pctVars, probeVars>>

\* ApiAcquire entering the with block without waiting for the lock
ApiAcquire_NoWait ==
    /\ api_pc = "lock"
    /\ status_lock' = "api"
    /\ api_pc' = "serve"
    /\ UNCHANGED <<cfgVars, clock, sharedVars, loopVars, api_req, pctVars, probeVars>>

\* lines 308, 343, 399: with self.status_lock
ApiAcquire ==
    /\ api_pc = "lock"
    /\ status_lock = "free"
    /\ status_lock' = "api"
    /\ api_pc' = "serve"
    /\ UNCHANGED <<cfgVars, clock, sharedVars, loopVars, api_req, pctVars, probeVars>>

\* lines 309, 344-371, 400-411: what the handler that holds the lock reads
\* from the shared state and returns
Reply ==
    LET f == Frame(ArgsGet(api_req.args, "range", "7d"), api_req.now)
    IN  IF api_req.handler = "api_health" THEN api_health(statuses)
        ELSE IF api_req.handler = "api_downtime"
             THEN api_downtime(f, statuses, history, tie_up)
        ELSE api_deployments(f, statuses, deploy_history)

\* ApiServe dropping from the logs the entries older than the window served
ApiServe_PrunesLogs ==
    /\ api_pc = "serve"
    /\ status_lock' = "free"
    /\ api_pc' = "idle"
    /\ api_req' = NoRequest
    /\ LET f == Frame(ArgsGet(api_req.args, "range", "7d"), api_req.now)
       IN  /\ history' = [n \in DOMAIN history |-> PruneHealth(history[n], f.start_ts)]
           /\ deploy_history' =
                 [n \in DOMAIN deploy_history |-> PruneDeploy(deploy_history[n], f.start_ts)]
    /\ UNCHANGED <<cfgVars, clock, statuses, last_append, loopVars, pctVars, probeVars>>

\* the handler returns Reply; the lock is released on leaving the with block
\* and the request's locals are gone
ApiServe ==
    /\ api_pc = "serve"
    /\ status_lock' = "free"
    /\ api_pc' = "idle"
    /\ api_req' = NoRequest
    /\ UNCHANGED <<cfgVars, clock, sharedVars, loopVars, pctVars, probeVars>>

---------------------------------------------------------------------------
(* The series queries over logs of every shape *)

\* the epoch second of the first request
SeriesEpoch == 700000

\* timestamps of stored entries: at and next to the edges of the windows and
\* of their first and last buckets, for a request made at SeriesEpoch
SeriesTimes ==
    {SeriesEpoch - d : d \in {604801, 604800, 259200, 86400, 3600, 3541, 60, 1, 0}}

SeriesNows == {SeriesEpoch, SeriesEpoch + 59}

\* request.args of the requests made
SeriesArgs ==
    {<<>>, <<<<"range", "1h">>>>, <<<<"range", "24h">>>>, <<<<"range", "3d">>>>,
     <<<<"range", "7d">>>>, <<<<"range", "30d">>>>, <<<<"range", "1H">>>>,
     <<<<"window", "1h">>>>}

\* the timestamp lists a log can hold: non-decreasing, up to MaxSeriesLen long
SortedTimes ==
    {t \in UNION {[1..n -> SeriesTimes] : n \in 0..MaxSeriesLen} :
        \A i, j \in DOMAIN t : i < j => t[i] <= t[j]}

\* the is_unhealthy flags of the entries: all healthy, all unhealthy, or
\* alternating
FlagPatterns(t) ==
    {[i \in DOMAIN t |-> 0], [i \in DOMAIN t |-> 1], [i \in DOMAIN t |-> i % 2]}

\* Project "db" has deployed at the times t and, if it was probed, was probed
\* at the same times with the results u; it has a status once it has been
\* probed.  Project "off" was probed once, healthy.
InitSeries ==
    /\ InitLocal(<<PDb, POff>>, "all", 0)
    /\ NoTallies
    /\ NoProbe
    /\ clock = SeriesEpoch
    /\ \E t \in SortedTimes, probed \in BOOLEAN :
       \E u \in FlagPatterns(t) :
          LET hlist == IF probed THEN [i \in DOMAIN t |-> <<t[i], u[i]>>] ELSE <<>>
          IN  /\ history = [n \in Names |->
                     IF n = "db" THEN hlist
                     ELSE IF n = "off" THEN <<<<SeriesEpoch - 30, 0>>>>
                     ELSE <<>>]
              /\ deploy_history = [n \in Names |-> IF n = "db" THEN t ELSE <<>>]
              /\ statuses = [n \in Names |->
                     IF n = "db" /\ hlist # <<>>
                     THEN (IF hlist[Len(hlist)][2] = 1 THEN "unhealthy" ELSE "healthy")
                     ELSE IF n = "off" THEN "healthy"
                     ELSE "none"]

NextSeries ==
    \/ ApiRequest(Handlers, SeriesArgs, SeriesNows)
    \/ ApiAcquire
    \/ ApiServe

SpecSeries == InitSeries /\ [][NextSeries]_vars

---------------------------------------------------------------------------
(* The percentages of api_downtime over tallies of every size *)

MaxBuckets == 2         \* buckets of the tallies drawn

\* sample counts of a bucket: small ones, multiples of 32 (where ties occur)
\* and the counts on both sides of 20000, where one sample is half a
\* hundredth of a percent
SampleCounts == {0, 1, 2, 3, 7, 32, 160, 19999, 20001}

\* the unhealthy counts drawn for a bucket of c samples
UnhealthyCounts(c) == {u \in {0, 1, 2, 4, 23, c - 1, c} : 0 <= u /\ u <= c}

\* counts and unhealthy as lines 346-359 leave them: two lists of the same
\* length with 0 <= unhealthy[i] <= counts[i]
InitPercent ==
    /\ InitLocal(<<PDb>>, "all", 0)
    /\ clock = 0
    /\ statuses = [n \in Names |-> "none"]
    /\ history = [n \in Names |-> <<>>]
    /\ deploy_history = [n \in Names |-> <<>>]
    /\ tie_up \in BOOLEAN
    /\ NoProbe
    /\ \E n \in 1..MaxBuckets :
       \E c \in [1..n -> SampleCounts] :
       \E u \in [1..n -> UNION {UnhealthyCounts(k) : k \in SampleCounts}] :
          /\ \A i \in 1..n : u[i] \in UnhealthyCounts(c[i])
          /\ pct_args = [counts |-> c, unhealthy |-> u]

\* lines 361-369: the percentages of the project's buckets
ComputePercentages ==
    /\ pct = <<>>
    /\ pct_args.counts # <<>>
    /\ pct' = Percentages(pct_args.counts, pct_args.unhealthy, tie_up)
    /\ UNCHANGED <<cfgVars, clock, status_lock, sharedVars, loopVars, api_pc,
                   api_req, tie_up, pct_args, probeVars>>

NextPercent == ComputePercentages

SpecPercent == InitPercent /\ [][NextPercent]_vars

---------------------------------------------------------------------------
(* check_project_health with its strategies: the checks made, the dict       *)
(* returned.  check_project_health above is its status, with the check's     *)
(* observation reduced to ok / bad / raise.                                  *)

MaxContainers == 2      \* containers of a listing, lines of the shell listing

Pipe == 124             \* '|'

TxtHTTP == <<72, 84, 84, 80, 0>>             \* 'HTTP '
TxtNoServiceName == <<78, 1>>                \* 'No docker service_name configured'
TxtNoSystemdName == <<78, 2>>                \* 'No systemd.service_name configured'
TxtNoCustomCheck == <<78, 3>>                \* 'No custom health check configured'
TxtNoCheck == <<78, 4>>                      \* 'No health check available'
TxtNoMatch == <<78, 5>>                      \* 'No matching container'
TxtActive == <<97, 99, 116, 105, 118, 101>>  \* 'active'
\* 'running'
TxtRunning == <<114, 117, 110, 110, 105, 110, 103>>
\* 'healthy'
TxtHealthy == <<104, 101, 97, 108, 116, 104, 121>>
TxtUp == <<85, 112>>                         \* 'Up'
TxtWeb == <<119, 101, 98>>                   \* 'web'
TxtMyapp == <<109, 121, 97, 112, 112>>       \* 'myapp'
\* 'myapp_web_1'
TxtMyappWeb1 == <<109, 121, 97, 112, 112, 95, 119, 101, 98, 95, 49>>
TxtUrl == <<104, 116, 116, 112, 58, 47, 47, 104>>    \* 'http://h'
TxtScript == <<99, 104, 101, 99, 107, 46, 115, 104>>  \* 'check.sh'

\* `sub in s` on strings
Contains(s, sub) ==
    \E i \in 0..(Len(s) - Len(sub)) : SubSeq(s, i + 1, i + Len(sub)) = sub

\* str(n) of a non-negative integer
RECURSIVE Decimal(_)
Decimal(n) ==
    IF n < 10 THEN <<48 + n>> ELSE Append(Decimal(n \div 10), 48 + (n % 10))

\* line.split('|', 2)
SplitPipe(line) ==
    LET bars == {i \in 1..Len(line) : line[i] = Pipe}
    IN  IF bars = {} THEN <<line>>
        ELSE LET b1 == Min(bars)
                 rest == {i \in bars : i > b1}
             IN  IF rest = {}
                 THEN <<SubSeq(line, 1, b1 - 1), SubSeq(line, b1 + 1, Len(line))>>
                 ELSE <<SubSeq(line, 1, b1 - 1),
                        SubSeq(line, b1 + 1, Min(rest) - 1),
                        SubSeq(line, Min(rest) + 1, Len(line))>>

\* the dict returned, and the checks made on the way, in order
Result(status, details, calls) ==
    [status |-> status, details |-> details, calls |-> calls]

\* lines 500-510: the HTTP strategy
http_check(h, e) ==
    LET expected == IF h.expected_status = <<>> THEN 200 ELSE h.expected_status[1]
    IN  IF e.http.raised THEN Result("unhealthy", e.http.text, <<"requests.get">>)
        ELSE IF e.http.status_code = expected
        THEN Result("healthy", TxtHTTP \o Decimal(e.http.status_code), <<"requests.get">>)
        ELSE Result("unhealthy", TxtHTTP \o Decimal(e.http.status_code), <<"requests.get">>)

\* lines 519-526
Candidates(service, project_basename) ==
    {service, service \o <<95, 49>>, service \o <<45, 49>>}
    \cup (IF project_basename # <<>>
          THEN {project_basename,
                project_basename \o <<95>> \o service \o <<95, 49>>,
                project_basename \o <<45>> \o service \o <<45, 49>>}
          ELSE {})

\* matches_container with the image reference left out of the match
matches_container_NameOnly(names, image, explicit_container, candidates) ==
    IF explicit_container # <<>> THEN names = explicit_container
    ELSE \E cand \in candidates :
            cand # <<>> /\ (names = cand \/ Contains(names, cand))

\* _matches_container, lines 528-535
matches_container(names, image, explicit_container, candidates) ==
    IF explicit_container # <<>> THEN names = explicit_container
    ELSE \E cand \in candidates :
            cand # <<>> /\ (names = cand \/ Contains(names, cand) \/ Contains(image, cand))

\* lines 595-608: the container found through the SDK.  found.started is
\* what _parse_started_at makes of State.StartedAt at the time of the probe.
sdk_result(found) ==
    LET health_st == Get(found.health, <<>>)
        uptime == OrElse(found.started, found.state)
        running == found.state = TxtRunning
        is_healthy == running /\ (found.health = NoKey \/ health_st = TxtHealthy)
    IN  Result(IF is_healthy THEN "healthy" ELSE "unhealthy",
               uptime \o <<0, 40>> \o OrElse(health_st, found.state)
                      \o <<41, Pipe>> \o found.name,
               <<"containers.list">>)

\* shell_check answering for a failed listing as for an empty one
shell_check_FailureAsEmpty(explicit_container, candidates, e, calls) ==
    LET parts == [i \in DOMAIN e.ps.lines |-> SplitPipe(e.ps.lines[i])]
        hits == {i \in DOMAIN parts :
                    /\ Len(parts[i]) = 3
                    /\ matches_container(Strip(parts[i][2]), Strip(parts[i][3]),
                                         explicit_container, candidates)}
        made == Append(calls, "docker ps")
    IN  IF ~e.ps.ok \/ hits = {} THEN Result("unhealthy", TxtNoMatch, made)
        ELSE LET status_text == Strip(parts[Min(hits)][1])
                 names == Strip(parts[Min(hits)][2])
             IN  Result(IF Contains(status_text, TxtUp) THEN "healthy" ELSE "unhealthy",
                        status_text \o <<Pipe>> \o names, made)

\* lines 613-637: the shell listing
shell_check(explicit_container, candidates, e, calls) ==
    LET parts == [i \in DOMAIN e.ps.lines |-> SplitPipe(e.ps.lines[i])]
        hits == {i \in DOMAIN parts :
                    /\ Len(parts[i]) = 3
                    /\ matches_container(Strip(parts[i][2]), Strip(parts[i][3]),
                                         explicit_container, candidates)}
        made == Append(calls, "docker ps")
    IN  IF ~e.ps.ok THEN Result("unhealthy", Strip(e.ps.out), made)
        ELSE IF hits = {} THEN Result("unhealthy", TxtNoMatch, made)
        ELSE LET status_text == Strip(parts[Min(hits)][1])
                 names == Strip(parts[Min(hits)][2])
             IN  Result(IF Contains(status_text, TxtUp) THEN "healthy" ELSE "unhealthy",
                        status_text \o <<Pipe>> \o names, made)

\* lines 512-637: the container strategy
container_check(p, explicit_container, e) ==
    LET candidates == Candidates(p.service_name, p.basename)
        listed == e.docker_client = "lists"
        hits == {i \in DOMAIN e.containers :
                    matches_container(e.containers[i].name, e.containers[i].image,
                                      explicit_container, candidates)}
        calls == IF e.docker_client = "none" THEN <<>> ELSE <<"containers.list">>
    IN  IF p.service_name = <<>> THEN Result("unknown", TxtNoServiceName, <<>>)
        ELSE IF listed /\ hits # {} THEN sdk_result(e.containers[Min(hits)])
        ELSE shell_check(explicit_container, candidates, e, calls)

\* lines 639-647
systemd_check(p, e) ==
    IF p.service_name = <<>> THEN Result("unknown", TxtNoSystemdName, <<>>)
    ELSE IF e.cmd.ok /\ Strip(e.cmd.out) = TxtActive
    THEN Result("healthy", TxtActive, <<"systemctl is-active">>)
    ELSE Result("unhealthy", Strip(e.cmd.out), <<"systemctl is-active">>)

\* lines 649-655
custom_check(p, e) ==
    IF Get(p.health.script, <<>>) # <<>>
    THEN Result(IF e.cmd.ok THEN "healthy" ELSE "unhealthy", Strip(e.cmd.out),
                <<"health script">>)
    ELSE Result("unknown", TxtNoCustomCheck, <<>>)

\* check_project_health_dict with the deploy method's strategy tried before the check URL
check_project_health_dict_MethodFirst(p, e) ==
    LET explicit_container == Get(p.health.container_name, <<>>)
    IN  IF p.deploy_method = "docker-compose" THEN container_check(p, explicit_container, e)
        ELSE IF p.deploy_method = "systemd" THEN systemd_check(p, e)
        ELSE IF p.deploy_method = "custom" THEN custom_check(p, e)
        ELSE IF p.health.url # NoKey THEN http_check(p.health, e)
        ELSE Result("unknown", TxtNoCheck, <<>>)

\* check_project_health, lines 496-657, for a project whose 'health' is a
\* mapping or absent (an absent one has no key)
check_project_health_dict(p, e) ==
    LET explicit_container == Get(p.health.container_name, <<>>)
    IN  IF p.health.url # NoKey THEN http_check(p.health, e)
        ELSE IF p.deploy_method = "docker-compose" THEN container_check(p, explicit_container, e)
        ELSE IF p.deploy_method = "systemd" THEN systemd_check(p, e)
        ELSE IF p.deploy_method = "custom" THEN custom_check(p, e)
        ELSE Result("unknown", TxtNoCheck, <<>>)

---------------------------------------------------------------------------
(* The probes followed in detail *)

Health(url, expected_status, container_name, script) ==
    [url |-> url, expected_status |-> expected_status,
     container_name |-> container_name, script |-> script]

ProbeProject(method, service_name, basename, health) ==
    [deploy_method |-> method, service_name |-> service_name,
     basename |-> basename, health |-> health]

Methods == {"docker-compose", "systemd", "custom", "kubernetes"}

\* projects with a check URL, of every deploy method
UrlProjects ==
    {ProbeProject(m, TxtWeb, TxtMyapp, Health(TxtUrl, x, NoKey, TxtScript)) :
        m \in Methods, x \in {<<>>, <<200>>, <<500>>}}

\* docker-compose projects without a check URL
ContainerProjects ==
    {ProbeProject("docker-compose", s, b, Health(NoKey, <<>>, c, NoKey)) :
        s \in {<<>>, TxtWeb}, b \in {<<>>, TxtMyapp},
        c \in {NoKey, TxtMyappWeb1, TxtWeb}}

\* the other projects without a check URL
OtherProjects ==
    {ProbeProject("systemd", s, TxtMyapp, Health(NoKey, <<>>, NoKey, NoKey)) :
        s \in {<<>>, TxtWeb}}
    \cup {ProbeProject("custom", TxtWeb, TxtMyapp, Health(NoKey, <<>>, NoKey, c)) :
            c \in {NoKey, TxtScript}}
    \cup {ProbeProject("kubernetes", TxtWeb, TxtMyapp, Health(NoKey, <<>>, NoKey, NoKey))}

Container(name, image, state, health, started) ==
    [name |-> name, image |-> image, state |-> state, health |-> health,
     started |-> started]

\* what docker_client.containers.list(all=True) can hold
Containers ==
    LET nginx == <<110, 103, 105, 110, 120>>
        up5m == <<85, 112, 0, 53, 109>>         \* 'Up 5m'
    IN  {Container(TxtMyappWeb1, nginx, TxtRunning, NoKey, up5m),
         \* 'web', exited, StartedAt not parsed
         Container(TxtWeb, nginx, <<101, 120, 105, 116, 101, 100>>, NoKey, <<>>),
         \* 'db' of image 'pg', healthy
         Container(<<100, 98>>, <<112, 103>>, TxtRunning, TxtHealthy, up5m),
         \* 'proxy' of image 'r/web:1', unhealthy
         Container(<<112, 114, 111, 120, 121>>, <<114, 47, 119, 101, 98, 58, 49>>,
                   TxtRunning, <<117, 110, 104, 101, 97, 108, 116, 104, 121>>, up5m),
         \* 'myapp', starting
         Container(TxtMyapp, nginx, TxtRunning,
                   <<115, 116, 97, 114, 116, 105, 110, 103>>, up5m)}

\* 'Up 2h|myapp_web_1|nginx'
PsLineMyappWeb ==
    <<85, 112, 0, 50, 104, Pipe>> \o TxtMyappWeb1 \o <<Pipe, 110, 103, 105, 110, 120>>

\* lines of `docker ps --format '{{.Status}}|{{.Names}}|{{.Image}}'`
PsLines ==
    {PsLineMyappWeb,
     \* ' Exited (1) | web | nginx '
     <<0, 69, 120, 105, 116, 101, 100, 0, 40, 49, 41, 0, 124, 0, 119, 101, 98, 0, 124, 0,
       110, 103, 105, 110, 120, 0>>,
     \* 'Up 5m (unhealthy)|proxy|r/web:1'
     <<85, 112, 0, 53, 109, 0, 40, 117, 110, 104, 101, 97, 108, 116, 104, 121, 41, 124,
       112, 114, 111, 120, 121, 124, 114, 47, 119, 101, 98, 58, 49>>,
     \* 'Up 1d|db|pg'
     <<85, 112, 0, 49, 100, 124, 100, 98, 124, 112, 103>>,
     \* 'Up 1h|web': two fields
     <<85, 112, 0, 49, 104, 124, 119, 101, 98>>}

SeqsUpTo(S, n) == UNION {[1..k -> S] : k \in 0..n}

HttpResponse(raised, status_code, text) ==
    [raised |-> raised, status_code |-> status_code, text |-> text]

HttpResponses ==
    {HttpResponse(FALSE, c, <<>>) : c \in {200, 404, 500}}
    \cup {HttpResponse(TRUE, 0, <<84, 1>>)}            \* 'Read timed out.'

Ps(ok, lines, out) == [ok |-> ok, lines |-> lines, out |-> out]

Env(http, docker_client, containers, ps, cmd) ==
    [http |-> http, docker_client |-> docker_client, containers |-> containers,
     ps |-> ps, cmd |-> cmd]

\* the SDK is not installed, its listing raises, or it lists containers
SdkStates ==
    {<<"none", <<>>>>, <<"raises", <<>>>>}
    \cup {<<"lists", cs>> : cs \in SeqsUpTo(Containers, MaxContainers)}

\* 'Cannot connect to the Docker daemon\n'
PsFailed == Ps(FALSE, <<>>, <<67, 1, 0>>)

\* docker ps fails, or prints lines
PsStates ==
    {PsFailed}
    \cup {Ps(TRUE, ls, <<>>) : ls \in SeqsUpTo(PsLines, MaxContainers)}

\* systemctl is-active / the health script: exit status and output
\* ('active\n' or 'inactive\n')
CmdStates ==
    {Out(ok, Line(o)) : ok \in BOOLEAN,
                        o \in {TxtActive, <<105, 110, 97, 99, 116, 105, 118, 101>>}}

\* what the checks would see if they were made: with a check URL every
\* response, over three states of the container runtime; for the container
\* strategy every listing of the SDK and of the shell; for the others every
\* outcome of the command
ProbeInputs ==
    {[project |-> p, env |-> Env(r, d[1], d[2], d[3], Out(TRUE, Line(TxtActive)))] :
        p \in UrlProjects, r \in HttpResponses,
        d \in {<<"lists", <<Container(TxtMyappWeb1, <<110, 103, 105, 110, 120>>, TxtRunning,
                                     NoKey, <<>>)>>,
                 Ps(TRUE, <<>>, <<>>)>>,
               <<"none", <<>>, Ps(TRUE, <<PsLineMyappWeb>>, <<>>)>>,
               <<"raises", <<>>, PsFailed>>}}
    \cup {[project |-> p,
           env |-> Env(HttpResponse(FALSE, 200, <<>>), d[1], d[2], s,
                       Out(TRUE, Line(TxtActive)))] :
            p \in ContainerProjects, d \in SdkStates, s \in PsStates}
    \cup {[project |-> p,
           env |-> Env(HttpResponse(FALSE, 200, <<>>), "none", <<>>,
                       Ps(TRUE, <<>>, <<>>), c)] :
            p \in OtherProjects, c \in CmdStates}

InitProbe ==
    /\ InitLocal(<<PDb>>, "all", 0)
    /\ NoTallies
    /\ clock = 0
    /\ statuses = [n \in Names |-> "none"]
    /\ history = [n \in Names |-> <<>>]
    /\ deploy_history = [n \in Names |-> <<>>]
    /\ probe_in \in ProbeInputs

\* check_project_health called and returned
RunProbe ==
    /\ probe_in # NoProbeInput
    /\ probe_out = NoResult
    /\ probe_out' = check_project_health_dict(probe_in.project, probe_in.env)
    /\ UNCHANGED <<cfgVars, clock, status_lock, sharedVars, loopVars, api_pc,
                   api_req, pctVars, probe_in>>

NextProbe == RunProbe

SpecProbe == InitProbe /\ [][NextProbe]_vars


---------------------------------------------------------------------------
(* Both loops and the request thread *)

ApiArgs == {<<<<"range", "1h">>>>}

\* one project: 'db', whose probes are healthy or unhealthy, or 'nocfg',
\* whose probes are unknown
ApiConfigs == {<<PDb>>, <<PNoCfg>>}

\* With 'db' the service starts one second before the end of the modelled
\* time, so the three threads are interleaved over two clock values; who holds
\* the lock does not depend on the time.  With 'nocfg', whose visits and
\* probes have one outcome each, it starts at time 0, so that entries of its
\* health log grow old enough to be pruned.
InitApi ==
    /\ \E cfg \in ApiConfigs :
          /\ InitLocal(cfg, "all", 0)
          /\ clock = IF cfg = <<PDb>> THEN MaxTime - 1 ELSE 0
    /\ NoTallies
    /\ NoProbe
    /\ statuses = [n \in Names |-> "none"]
    /\ history = [n \in Names |-> <<>>]
    /\ deploy_history = [n \in Names |-> <<>>]

NextApi ==
    \/ BeginVisit(GitEnvsAll)
    \/ RecoveryProbe
    \/ Pull(PullEnvsAll)
    \/ Deploy(FALSE)
    \/ DeployAcquire
    \/ DeployRecord
    \/ DeployNotify
    \/ NextProject
    \/ NextCycle
    \/ HealthProbe
    \/ HealthAcquire
    \/ HealthRecord
    \/ HealthNextPass
    \/ ApiRequest(Handlers, ApiArgs, 0..MaxTime)
    \/ ApiAcquire
    \/ ApiServe

SpecApi == InitApi /\ [][NextApi]_vars

---------------------------------------------------------------------------
(* The two loops for ever *)

\* run, lines 954-965: the while loop of the deploy-check driver.  No step
\* of it raises into the loop: run_once catches what process_project raises
\* (lines 931-936), so the except clause of line 962 is not reached; an
\* interrupt is not delivered.
DeployLoop ==
    \/ BeginVisit(GitEnvsAll)
    \/ RecoveryProbe
    \/ Pull(PullEnvsAll)
    \/ Deploy(FALSE)
    \/ DeployAcquire
    \/ DeployRecord
    \/ DeployNotify
    \/ NextProject
    \/ NextCycle

\* scheduler, lines 459-484: the while loop of the health-check thread
HealthLoop ==
    \/ HealthProbe
    \/ HealthAcquire
    \/ HealthRecord
    \/ HealthNextPass

LiveConfigs == {<<PText, POff>>, <<PDb, POff>>}

\* the clock has reached the last value followed
InitLive ==
    /\ \E cfg \in LiveConfigs : InitLocal(cfg, "all", 0)
    /\ NoTallies
    /\ NoProbe
    /\ clock = MaxTime
    /\ statuses = [n \in Names |-> "none"]
    /\ history = [n \in Names |-> <<>>]
    /\ deploy_history = [n \in Names |-> <<>>]

\* The counts of completed cycles and passes and the logs only record what
\* the loops have done.  When both loops are asleep and one of them has
\* completed as many iterations as are counted, the record is dropped and
\* the counting starts again: the loops go on for ever, as the two while
\* loops do, through a finite number of states.
Forget ==
    /\ d_pc = "sleep" /\ h_pc = "sleep"
    /\ d_cycle = MaxDeployCycles \/ h_pass = MaxHealthPasses
    /\ d_cycle' = 0
    /\ h_pass' = 0
    /\ history' = [n \in Names |-> <<>>]
    /\ deploy_history' = [n \in Names |-> <<>>]
    /\ last_append' = [health |-> NoAppend, deploy |-> NoAppend]
    /\ dlog_at_visit' = <<>>
    /\ UNCHANGED <<cfgVars, apiVars, clock, status_lock, statuses, d_pc, d_idx,
                   d_ts, visited, d_recovery, health_status, git_env, update_info,
                   det_class, trace, notifications, deploy_ret, h_pc, h_idx,
                   h_status, h_trace>>

NextLive == DeployLoop \/ HealthLoop \/ Forget

\* each loop is a thread of its own and every command returns: a loop that
\* can take a step takes one
SpecLive ==
    /\ InitLive
    /\ [][NextLive]_vars
    /\ WF_vars(DeployLoop)
    /\ WF_vars(HealthLoop)
    /\ WF_vars(Forget)


---------------------------------------------------------------------------
(* The scheduler and the downtime query on hosts east and west of UTC *)

\* the host's offset from UTC in seconds: an hour west, none, an hour east
ClockOffsets == {-3600, 0, 3600}

\* the four windows of api_downtime
ClockArgs ==
    {<<<<"range", "1h">>>>, <<<<"range", "24h">>>>, <<<<"range", "3d">>>>,
     <<<<"range", "7d">>>>}

\* the service has started on a host with offset tz; time.time() reads 0.
\* The deploy-check loop is not followed.
InitClock == \E tz \in ClockOffsets : InitWith(<<PDb>>, "all", tz)

NextClock ==
    \/ HealthLoop
    \/ ApiRequest({"api_downtime"}, ClockArgs, 0..MaxTime)
    \/ ApiAcquire
    \/ ApiServe

SpecClock == InitClock /\ [][NextClock]_vars

---------------------------------------------------------------------------
(* Vocabulary of the properties *)

Visited == projects[d_idx]

\* the positions of the trace that hold an event of one of the kinds
At(kinds) == {i \in DOMAIN trace : trace[i].ev \in kinds}

DeploySteps == {"pre_deploy", "dispatch", "post_deploy"}

PullRun == At({"pull"}) # {}
DeployStepRun == At(DeploySteps) # {}

\* the four detection commands succeeded this visit
DetectionRan == det_class # ""
Resolved ==
    /\ DetectionRan
    /\ git_env.fetch.ok /\ git_env.local.ok /\ git_env.remote.ok /\ git_env.base.ok

\* the commit ids the commands printed: the output without its final newline
IsLine(out, text) == out = text \o <<0>>
LocalIs(c) == IsLine(git_env.local.out, c)
RemoteIs(c) == IsLine(git_env.remote.out, c)
BaseIs(c) == IsLine(git_env.base.out, c)

LocalEqRemote == \E c \in Shas : LocalIs(c) /\ RemoteIs(c)
LocalEqBase == \E c \in Shas : LocalIs(c) /\ BaseIs(c)
RemoteEqBase == \E c \in Shas : RemoteIs(c) /\ BaseIs(c)

---------------------------------------------------------------------------
(* C1 *)

\* C1, as stated: whenever the detection commands of a visit succeeded and
\* the local commit equals the remote commit, detection yields UpToDate and
\* the visit runs no pull command and no deploy step, whatever the deploy
\* method and the health of the project.
C1_NoPullNoDeploy ==
    (Resolved /\ LocalEqRemote) =>
        /\ det_class = "UpToDate"
        /\ ~PullRun
        /\ ~DeployStepRun

\* C1, amended: whenever the detection commands of a visit succeeded and the
\* local commit equals the remote commit, detection yields UpToDate and the
\* visit runs no pull command; it runs a deploy step only if the deploy
\* method is docker-compose and the probe taken in that visit was not healthy.
C1_UpToDateNoPull ==
    (Resolved /\ LocalEqRemote) =>
        /\ det_class = "UpToDate"
        /\ update_info = None
        /\ ~PullRun
        /\ DeployStepRun =>
              /\ Visited.deploy_method = "docker-compose"
              /\ health_status \in {"unhealthy", "unknown"}

\* an up-to-date docker-compose project probed healthy: the visit is over and
\* nothing but detection and the probe has run
C1_Witness ==
    /\ Resolved /\ LocalEqRemote
    /\ d_pc = "done"
    /\ health_status = "healthy"
    /\ At(DeploySteps \cup {"pull", "notify", "append"}) = {}

---------------------------------------------------------------------------
(* C2 *)

\* C2: whenever the detection commands succeeded and neither the local nor
\* the remote commit equals the merge-base, the finished visit has classified
\* the project as Diverged, sent exactly one notification and attempted no
\* pull and no deploy step, for every deploy method and health.
C2_DivergedOneNotification ==
    (Resolved /\ ~LocalEqBase /\ ~RemoteEqBase /\ d_pc = "done") =>
        /\ det_class = "Diverged"
        /\ Len(notifications) = 1
        /\ notifications[1].kind = "diverged"
        /\ ~PullRun
        /\ ~DeployStepRun

---------------------------------------------------------------------------
(* C3 *)

Behind == Resolved /\ LocalEqBase /\ ~LocalEqRemote

\* text is the first n characters of the line out
IsPrefixOfLine(text, out, n) ==
    /\ Len(text) = n
    /\ \A i \in 1..n : text[i] = out[i]

\* the class the checks give when applied in the order
\* local = remote, local = base, remote = base, otherwise
ClassInOrder ==
    CASE LocalEqRemote -> "UpToDate"
      [] ~LocalEqRemote /\ LocalEqBase -> "Behind"
      [] ~LocalEqRemote /\ ~LocalEqBase /\ RemoteEqBase -> "Ahead"
      [] OTHER -> "Diverged"

\* C3, as stated: for a project behind its remote, detect returns Behind with
\* the first 8 characters of the local and of the remote commit id and the
\* message and author of the latest fetched commit.
C3_BehindCarriesCommit ==
    Behind =>
        /\ det_class = "Behind"
        /\ IsPrefixOfLine(update_info.local, git_env.local.out, 8)
        /\ IsPrefixOfLine(update_info.remote, git_env.remote.out, 8)
        /\ IsLine(MsgOut, update_info.commit_message)
        /\ IsLine(AuthorOut, update_info.commit_author)

\* C3, amended: for a project behind its remote, detect returns Behind with
\* the first 8 characters of the local and of the remote commit id, and with
\* the message (author) printed by the git log command when that command
\* succeeded and "Unknown" when it failed; and whenever the detection commands
\* succeeded, the class is the one the checks give in the order local = remote,
\* local = base, remote = base, otherwise diverged.
C3_BehindCarriesCommitOrUnknown ==
    /\ Resolved => det_class = ClassInOrder
    /\ Behind =>
        /\ det_class = "Behind"
        /\ update_info.tag = "dict"
        /\ update_info.error = NoKey
        /\ IsPrefixOfLine(update_info.local, git_env.local.out, 8)
        /\ IsPrefixOfLine(update_info.remote, git_env.remote.out, 8)
        /\ IF git_env.msg.ok
           THEN IsLine(git_env.msg.out, update_info.commit_message)
           ELSE update_info.commit_message = TxtUnknown
        /\ IF git_env.author.ok
           THEN IsLine(git_env.author.out, update_info.commit_author)
           ELSE update_info.commit_author = TxtUnknown

\* a project behind its remote whose two commit ids differ only after their
\* eighth character, and whose git log for the message failed
C3_Witness ==
    /\ Behind
    /\ LocalIs(ShaA) /\ RemoteIs(ShaB)
    /\ update_info.local = update_info.remote
    /\ ~git_env.msg.ok /\ git_env.author.ok
    /\ update_info.commit_message = TxtUnknown

---------------------------------------------------------------------------
(* C4 *)

\* C4: whenever the detection commands succeeded, the remote commit equals
\* the merge-base and the local commit differs, the visit takes no action:
\* no pull, no deploy step, no deploy-log entry and no notification.
C4_AheadNoAction ==
    (Resolved /\ RemoteEqBase /\ ~LocalEqRemote) =>
        /\ det_class = "Ahead"
        /\ At(DeploySteps \cup {"pull", "notify", "append"}) = {}
        /\ notifications = <<>>
        /\ deploy_history[Visited.name] = dlog_at_visit

---------------------------------------------------------------------------
(* C5 *)

\* the number of detection commands run up to and including the first that
\* failed; 0 if none failed
FirstFailure ==
    IF ~git_env.fetch.ok THEN 1
    ELSE IF ~git_env.local.ok THEN 2
    ELSE IF ~git_env.remote.ok THEN 3
    ELSE IF ~git_env.base.ok THEN 4
    ELSE 0

\* C5: whenever the fetch or one of the three resolutions failed in a visit,
\* detect returned Error having run no command after the failing one, and the
\* visit is over: exactly one 'git check failed' notification was sent, and
\* no pull, no deploy step and no deploy-log entry occurred.
C5_DetectionErrorAborts ==
    (DetectionRan /\ FirstFailure # 0) =>
        /\ det_class = "Error"
        /\ d_pc = "done"
        /\ At({"detect"}) = 1..FirstFailure
        /\ \A i \in 1..FirstFailure : trace[i].ok <=> (i < FirstFailure)
        /\ Len(notifications) = 1
        /\ notifications[1].kind = "git_check_failed"
        /\ notifications[1].name = Visited.name
        /\ At(DeploySteps \cup {"pull", "append", "probe", "raise"}) = {}
        /\ deploy_history[Visited.name] = dlog_at_visit

\* the merge-base resolution failed printing nothing, after three commands
\* that succeeded
C5_Witness ==
    /\ DetectionRan
    /\ FirstFailure = 4
    /\ git_env.base.out = <<>>
    /\ d_pc = "done"
    /\ Len(trace) = 5

---------------------------------------------------------------------------
(* C6 *)

\* the commands of one phase that were run, in the order they were run
RECURSIVE Ran(_, _)
Ran(t, kind) ==
    IF t = <<>> THEN <<>>
    ELSE IF Head(t).ev = kind THEN <<Head(t).what>> \o Ran(Tail(t), kind)
    ELSE Ran(Tail(t), kind)

IsPrefix(a, b) == Len(a) <= Len(b) /\ a = SubSeq(b, 1, Len(a))

Failed(kind) == \E i \in At({kind}) : ~trace[i].ok

\* no command was run after position i of the trace
LastCommand(i) == \A j \in DOMAIN trace : j > i => trace[j].ev = "notify"

\* C6: once a pre_deploy command has failed in a visit, the pre_deploy
\* commands run are the configured ones, in order, up to that first failure;
\* deploy has returned failure; no command of any kind was run after the
\* failing one, and the project's deploy log is as it was when the visit began.
C6_PreDeployFailureAborts ==
    Failed("pre_deploy") =>
        /\ deploy_ret = "False"
        /\ d_pc = "done"
        /\ IsPrefix(Ran(trace, "pre_deploy"), Visited.pre_deploy)
        /\ \A i \in At({"pre_deploy"}) : ~trace[i].ok => LastCommand(i)
        /\ At({"dispatch", "post_deploy", "append"}) = {}
        /\ deploy_history[Visited.name] = dlog_at_visit

\* the first of two configured pre_deploy commands failed; the other was not run
C6_Witness ==
    /\ Failed("pre_deploy")
    /\ Len(Visited.pre_deploy) = 2
    /\ Ran(trace, "pre_deploy") = <<Visited.pre_deploy[1]>>
    /\ d_pc = "done"

---------------------------------------------------------------------------
(* C7 *)

StartCommands == {"docker compose up", "systemctl restart", "deploy_script"}

PullSucceeded == \E i \in At({"pull"}) : trace[i].what = "git pull" /\ trace[i].ok
PreDeploySucceeded ==
    Ran(trace, "pre_deploy") = Visited.pre_deploy /\ ~Failed("pre_deploy")
DispatchSucceeded ==
    \E i \in At({"dispatch"}) : trace[i].what \in StartCommands /\ trace[i].ok

Rank(ev) ==
    CASE ev = "detect" -> 1 [] ev = "pull" -> 2 [] ev = "pre_deploy" -> 3
      [] ev = "dispatch" -> 4 [] ev = "post_deploy" -> 5 [] ev = "append" -> 6
      [] ev = "notify" -> 7 [] OTHER -> 0

InStepOrder ==
    \A i, j \in DOMAIN trace :
        i < j => (Rank(trace[i].ev) # 0 /\ Rank(trace[i].ev) <= Rank(trace[j].ev))

\* s is lst with x appended, less some entries removed from its head
IsAppendPruned(s, lst, x) ==
    \E k \in 0..Len(lst) : s = SubSeq(lst, k + 1, Len(lst)) \o <<x>>

\* C7: for a project found Behind whose pull, pre_deploy commands and method
\* dispatch all succeeded, the visit is on its way to the deploy log, and once
\* it is over it has run its steps in the order detect, pull, pre_deploy,
\* dispatch, post_deploy, deploy-log append, notification; it has appended
\* exactly one entry to the project's deploy log and sent exactly one
\* notification, the success notification carrying the detected commit
\* message and author.
C7_BehindDeploysInOrder ==
    (Behind /\ PullSucceeded /\ PreDeploySucceeded /\ DispatchSucceeded) =>
        /\ d_pc \in {"lock", "record", "notify", "done"}
        /\ d_pc = "done" =>
              /\ deploy_ret = "True"
              /\ InStepOrder
              /\ Cardinality(At({"append"})) = 1
              /\ IsAppendPruned(deploy_history[Visited.name], dlog_at_visit, d_ts)
              /\ Len(notifications) = 1
              /\ Cardinality(At({"notify"})) = 1
              /\ notifications[1].kind = "deployed"
              /\ notifications[1].name = Visited.name
              /\ notifications[1].commit_message = update_info.commit_message
              /\ notifications[1].commit_author = update_info.commit_author
              /\ update_info.commit_message # NoKey
              /\ update_info.commit_author # NoKey

\* "fix bug" by "alice": a behind project with two pre_deploy and two
\* post_deploy commands deployed, every step having run
C7_Witness ==
    /\ Behind /\ PullSucceeded /\ PreDeploySucceeded /\ DispatchSucceeded
    /\ d_pc = "done"
    /\ Len(Visited.pre_deploy) = 2
    /\ Ran(trace, "post_deploy") = Visited.post_deploy
    /\ Len(Visited.post_deploy) = 2
    /\ IsLine(MsgOut, notifications[1].commit_message)
    /\ IsLine(AuthorOut, notifications[1].commit_author)
    /\ Len(deploy_history[Visited.name]) = Len(dlog_at_visit) + 1

---------------------------------------------------------------------------
(* C8 *)

\* C8: once the method dispatch has succeeded and a post_deploy command has
\* failed, no post_deploy command was run after the failing one and the visit
\* goes on to the deploy log; once the visit is over deploy has returned
\* success, one entry was appended to the deploy log, and the notification
\* sent is the success notification, not a failure notification.
C8_PostDeployFailureTolerated ==
    (DispatchSucceeded /\ Failed("post_deploy")) =>
        /\ d_pc \in {"lock", "record", "notify", "done"}
        /\ IsPrefix(Ran(trace, "post_deploy"), Visited.post_deploy)
        /\ \A i \in At({"post_deploy"}) :
              ~trace[i].ok => (\A j \in At({"post_deploy"}) : j <= i)
        /\ d_pc = "done" =>
              /\ deploy_ret = "True"
              /\ Cardinality(At({"append"})) = 1
              /\ IsAppendPruned(deploy_history[Visited.name], dlog_at_visit, d_ts)
              /\ notifications # <<>>
              /\ notifications[Len(notifications)].kind \in {"deployed", "recovered"}
              /\ \A i \in DOMAIN notifications :
                    notifications[i].kind \notin {"deploy_failed", "recovery_failed"}

\* the first of two post_deploy commands failed after an update was deployed
C8_Witness ==
    /\ DispatchSucceeded /\ Failed("post_deploy")
    /\ d_pc = "done"
    /\ Len(Visited.post_deploy) = 2
    /\ Len(Ran(trace, "post_deploy")) = 1
    /\ notifications[1].kind = "deployed"

---------------------------------------------------------------------------
(* C9 *)

PullDecided == d_pc \notin {"visit", "pull"}
Where(what) == {i \in DOMAIN trace : trace[i].what = what}

\* C9: for a project found Behind, once pull_changes has returned: the pull
\* was attempted, before any deploy step; if the working tree was dirty a
\* stash command was run before the pull, and the pull was attempted whether
\* or not the stash succeeded; and if the pull failed the visit is over with
\* no pre_deploy, dispatch or post_deploy command run, the deploy log as it
\* was, and exactly one notification sent, the pull-failure notification.
C9_PullBeforeDeploy ==
    (Behind /\ PullDecided) =>
        /\ Cardinality(Where("git pull")) = 1
        /\ \A i \in Where("git pull"), j \in At(DeploySteps) : i < j
        /\ \A i \in Where("git diff-index") :
              ~trace[i].ok =>
                 \E j \in Where("git stash save"), k \in Where("git pull") :
                    i < j /\ j < k
        /\ \A i \in Where("git pull") :
              ~trace[i].ok =>
                 /\ d_pc = "done"
                 /\ ~DeployStepRun
                 /\ At({"append"}) = {}
                 /\ deploy_history[Visited.name] = dlog_at_visit
                 /\ Len(notifications) = 1
                 /\ notifications[1].kind = "pull_failed"
                 /\ notifications[1].name = Visited.name

\* a dirty tree whose stash failed: the pull was attempted all the same, and failed
C9_Witness ==
    /\ Behind /\ PullDecided
    /\ \E i \in Where("git stash save") : ~trace[i].ok
    /\ \E i \in Where("git pull") : ~trace[i].ok
    /\ d_pc = "done"

---------------------------------------------------------------------------
(* C10 *)

\* C10: for the health log and the deploy log of every project, after the
\* latest append-then-prune of that log every remaining entry has a timestamp
\* >= (the timestamp of the entry appended) - retention_seconds.
C10_Retention ==
    /\ last_append.health.name # "" =>
          \A i \in DOMAIN history[last_append.health.name] :
              history[last_append.health.name][i][1]
                  >= last_append.health.ts - RetentionSeconds
    /\ last_append.deploy.name # "" =>
          \A i \in DOMAIN deploy_history[last_append.deploy.name] :
              deploy_history[last_append.deploy.name][i]
                  >= last_append.deploy.ts - RetentionSeconds

\* a project's two logs were each appended to at least twice and each holds
\* one entry: the prune has removed the older ones
C10_Witness ==
    /\ h_pass = 2
    /\ last_append.health.name = Visited.name
    /\ Len(history[Visited.name]) = 1
    /\ d_pc = "done" /\ deploy_ret = "True"
    /\ dlog_at_visit # <<>>
    /\ deploy_history[Visited.name] = <<d_ts>>

---------------------------------------------------------------------------
(* C11 *)

HealthSorted(n) ==
    \A i, j \in DOMAIN history[n] : i < j => history[n][i][1] <= history[n][j][1]
DeploySorted(n) ==
    \A i, j \in DOMAIN deploy_history[n] :
        i < j => deploy_history[n][i] <= deploy_history[n][j]

\* new is old with one entry appended, less some entries removed from its head
AppendedAndPruned(new, old) ==
    /\ new # <<>>
    /\ IsAppendPruned(new, old, new[Len(new)])

\* C11: in every reachable state each project's health log and deploy log is
\* non-decreasing in timestamp; a health log changes only in a step of the
\* health-check loop holding the lock, a deploy log only in a step of the
\* deploy-check loop holding the lock; and a step that changes a log appends
\* one entry and removes nothing but a prefix of the older entries.
C11_LogsOrdered ==
    /\ [](\A n \in Names : HealthSorted(n) /\ DeploySorted(n))
    /\ [][\A n \in Names :
            /\ history'[n] # history[n] =>
                  /\ h_pc = "record" /\ status_lock = "health"
                  /\ UNCHANGED <<deployVars, apiVars>>
                  /\ AppendedAndPruned(history'[n], history[n])
            /\ deploy_history'[n] # deploy_history[n] =>
                  /\ d_pc = "record" /\ status_lock = "deploy"
                  /\ UNCHANGED <<healthVars, apiVars>>
                  /\ AppendedAndPruned(deploy_history'[n], deploy_history[n])
       ]_vars

\* a project's health log holds two entries of different times, and its
\* deploy log holds the entry just appended, an older one having been removed
C11_Witness ==
    /\ Len(history[Visited.name]) = 2
    /\ history[Visited.name][1][1] < history[Visited.name][2][1]
    /\ d_pc = "done" /\ deploy_ret = "True"
    /\ dlog_at_visit # <<>>
    /\ deploy_history[Visited.name] = <<d_ts>>

---------------------------------------------------------------------------
(* C12 *)

\* a series query holds the lock and is about to return Reply
Served == api_pc = "serve" /\ api_req.handler \in {"api_downtime", "api_deployments"}

\* the value of the 'range' argument, if one was given
RangeGiven == \E i \in DOMAIN api_req.args : api_req.args[i][1] = "range"
RangeValue == api_req.args[Min({i \in DOMAIN api_req.args : api_req.args[i][1] = "range"})][2]
RangeIs(k) == RangeGiven /\ RangeValue = k

\* the four windows: length, bucket width and number of buckets, in seconds
WindowTable ==
    [h1 |-> [length |-> 3600, width |-> 60, buckets |-> 60],
     h24 |-> [length |-> 86400, width |-> 300, buckets |-> 288],
     d3 |-> [length |-> 259200, width |-> 3600, buckets |-> 72],
     d7 |-> [length |-> 604800, width |-> 3600, buckets |-> 168]]

\* the window the request is answered for
Asked ==
    IF RangeIs("1h") THEN WindowTable.h1
    ELSE IF RangeIs("24h") THEN WindowTable.h24
    ELSE IF RangeIs("3d") THEN WindowTable.d3
    ELSE WindowTable.d7

\* C12: every reply of the health and of the deploy aggregation has the
\* window's fixed number of buckets (60, 288, 72 or 168 = window length /
\* bucket width): the label list and every project's series have exactly that
\* length, the labels start at now - window length and increase by the bucket
\* width, whatever entries the logs hold; and a bucket that counted no sample
\* is present in the series and reports 0.
C12_FixedBuckets ==
    Served =>
        LET r == Reply
        IN  /\ Asked.buckets * Asked.width = Asked.length
            /\ Len(r.labels) = Asked.buckets
            /\ r.labels[1] = api_req.now - Asked.length
            /\ \A i \in 1..(Asked.buckets - 1) :
                  r.labels[i + 1] = r.labels[i] + Asked.width
            /\ DOMAIN r.projects = StatusKeys(statuses)
            /\ \A n \in DOMAIN r.projects :
                  /\ DOMAIN r.projects[n] = 1..Asked.buckets
                  /\ \A i \in 1..Asked.buckets :
                        r.counts[n][i] = 0 => r.projects[n][i] = 0

\* a 24-hour health reply of 288 buckets: one project has two samples in one
\* bucket, the other has no sample at all in 287 of them
C12_Witness ==
    /\ Served /\ api_req.handler = "api_downtime" /\ RangeIs("24h")
    /\ LET r == Reply
       IN  /\ Len(r.labels) = 288
           /\ {"db", "off"} \subseteq DOMAIN r.projects
           /\ \E i \in 1..288 : r.counts["db"][i] = 2
           /\ Cardinality({i \in 1..288 : r.counts["off"][i] = 0}) = 287

---------------------------------------------------------------------------
(* C13 *)


WindowStart == api_req.now - Asked.length

\* the entries of log that lie in the window and in its bucket number i
\* (buckets numbered from 1): those with
\* window_start + (i-1) * width <= ts < window_start + i * width, ts < now
InBucket(log, i) ==
    {k \in DOMAIN log :
        /\ WindowStart <= log[k] /\ log[k] < api_req.now
        /\ WindowStart + (i - 1) * Asked.width <= log[k]
        /\ log[k] < WindowStart + i * Asked.width}

InWindow(log) == {k \in DOMAIN log : WindowStart <= log[k] /\ log[k] < api_req.now}

\* q[lo] + ... + q[hi]
RECURSIVE SumRange(_, _, _)
SumRange(q, lo, hi) ==
    IF lo > hi THEN 0
    ELSE IF lo = hi THEN q[lo]
    ELSE SumRange(q, lo, (lo + hi) \div 2) + SumRange(q, (lo + hi) \div 2 + 1, hi)

Sum(q) == SumRange(q, 1, Len(q))

\* the log the handler being served aggregates
LogsServed == IF api_req.handler = "api_downtime"
              THEN [n \in Names |-> [i \in DOMAIN history[n] |-> history[n][i][1]]]
              ELSE deploy_history

\* C13: in both aggregations a stored entry with timestamp ts is counted in
\* exactly one bucket, floor((ts - window_start) / bucket_width), iff
\* window_start <= ts < now, and in no bucket otherwise: a project with a
\* stored entry in the window has a series in the reply, the count of every
\* bucket of every series is the number of the project's stored entries that
\* fall in that bucket, and the counts of a project add up to the number of
\* its stored entries in [window_start, now).
C13_EveryEntryCounted ==
    Served =>
        LET r == Reply
        IN  /\ \A n \in Names : InWindow(LogsServed[n]) # {} => n \in DOMAIN r.counts
            /\ \A n \in DOMAIN r.counts :
                  /\ \A i \in 1..Asked.buckets :
                        r.counts[n][i] = Cardinality(InBucket(LogsServed[n], i))
                  /\ Sum(r.counts[n]) = Cardinality(InWindow(LogsServed[n]))

\* The bucket arithmetic of C13 for the projects that have a series in the
\* reply: the count of bucket floor((ts - window_start) / bucket_width) is
\* the number of stored entries ts of the project with window_start <= ts <
\* now that fall in that bucket, and the counts add up to the number of its
\* stored entries in [window_start, now).
C13_CountedOnce ==
    Served =>
        LET r == Reply
        IN  \A n \in DOMAIN r.counts :
                /\ \A i \in 1..Asked.buckets :
                      r.counts[n][i] = Cardinality(InBucket(r.stored[n], i))
                /\ Sum(r.counts[n]) = Cardinality(InWindow(r.stored[n]))

\* a one-hour health reply over a log with an entry at window_start, counted
\* in the first bucket, and an entry at now, counted nowhere
C13_Witness ==
    /\ Served /\ api_req.handler = "api_downtime" /\ RangeIs("1h")
    /\ LET r == Reply
       IN  /\ Len(history["db"]) = 2
           /\ "db" \in DOMAIN r.counts
           /\ history["db"][1][1] = WindowStart
           /\ history["db"][2][1] = api_req.now
           /\ r.counts["db"][1] = 1
           /\ Sum(r.counts["db"]) = 1

---------------------------------------------------------------------------
(* C14 *)

Computed == pct # <<>>

Abs(x) == IF x < 0 THEN -x ELSE x

\* p hundredths of a percent is u / c * 100 rounded to two decimals: no
\* further than half a hundredth from it
IsRounded(p, c, u) == 2 * Abs(p * c - u * 10000) <= c

\* what every bucket's percentage satisfies, whatever its size
InRangeAndRounded(p, c, u) ==
    /\ 0 <= p /\ p <= 10000
    /\ c = 0 => p = 0
    /\ c > 0 => IsRounded(p, c, u)

\* 100 exactly when non-empty and all unhealthy, 0 exactly when no sample is
\* unhealthy
ExactEnds(p, c, u) ==
    /\ p = 10000 <=> (c > 0 /\ u = c)
    /\ p = 0 <=> u = 0

\* The statement of C14 as made: for every health bucket the percentage is
\* unhealthy_count / total_count * 100 rounded to 2 decimals, or 0 for an
\* empty bucket; it lies in [0, 100], is 100 exactly when the bucket is
\* non-empty and all its samples are unhealthy, and is 0 exactly when the
\* bucket has no unhealthy sample.
C14_PercentageExactEnds ==
    Computed =>
        \A i \in DOMAIN pct :
            LET c == pct_args.counts[i]
                u == pct_args.unhealthy[i]
            IN  InRangeAndRounded(pct[i], c, u) /\ ExactEnds(pct[i], c, u)

\* C14: for every health bucket the percentage is unhealthy_count /
\* total_count * 100 rounded to 2 decimals, or 0 for an empty bucket, and
\* lies in [0, 100]; for a bucket of fewer than 20000 samples it is 100
\* exactly when the bucket is non-empty and all its samples are unhealthy,
\* and 0 exactly when the bucket has no unhealthy sample.
C14_Percentage ==
    Computed =>
        \A i \in DOMAIN pct :
            LET c == pct_args.counts[i]
                u == pct_args.unhealthy[i]
            IN  /\ InRangeAndRounded(pct[i], c, u)
                /\ c < 20000 => ExactEnds(pct[i], c, u)

\* an empty bucket reported as 0 next to a bucket of three samples, two of
\* them unhealthy, reported as 66.67
C14_Witness ==
    /\ Computed
    /\ pct_args = [counts |-> <<0, 3>>, unhealthy |-> <<0, 2>>]
    /\ pct = <<0, 6667>>

---------------------------------------------------------------------------
(* C15 *)

FourWindows == {"1h", "24h", "3d", "7d"}

\* the reply to the same request made with range=7d
ReplyFor7d ==
    IF api_req.handler = "api_downtime"
    THEN api_downtime(Frame("7d", api_req.now), statuses, history, tie_up)
    ELSE api_deployments(Frame("7d", api_req.now), statuses, deploy_history)

\* C15: the 'range' argument of both series queries selects the window length
\* and bucket width of 1h (3600, 60), 24h (86400, 300), 3d (259200, 3600) and
\* 7d (604800, 3600); for any other value, and when the argument is absent,
\* the reply is the reply to range=7d.
C15_WindowSelection ==
    Served =>
        LET r == Reply
        IN  /\ r.labels[1] = api_req.now - Asked.length
            /\ r.labels[2] - r.labels[1] = Asked.width
            /\ r.labels[Len(r.labels)] = api_req.now - Asked.width
            /\ (~RangeGiven \/ RangeValue \notin FourWindows) =>
                  /\ r = ReplyFor7d
                  /\ Len(r.labels) = 168

\* range=30d answered as range=7d: 168 hourly buckets, with a deploy of seven
\* days ago counted in the first of them
C15_Witness ==
    /\ Served /\ api_req.handler = "api_deployments"
    /\ LET r == Reply
       IN  /\ RangeIs("30d")
           /\ Len(r.labels) = 168
           /\ "db" \in DOMAIN r.counts
           /\ r.counts["db"][1] > 0

---------------------------------------------------------------------------
(* C16 *)

\* the names of the configured projects that are enabled or monitor-only
Monitored == {projects[i].name : i \in {j \in DOMAIN projects :
                                           should_monitor_project(projects[j])}}

\* C16: in every reachable state of a running process, from construction
\* on and before the first health-check pass completes, the status map
\* holds an entry for every configured project that is enabled or
\* monitor-only and for no other name.
C16_StatusMapComplete == StatusKeys(statuses) = Monitored

\* The part of C16 the scheduler keeps: the status map holds entries only
\* for configured projects that are enabled or monitor-only, and an entry,
\* once stored, is never removed.
C16_OnlyMonitoredNeverRemoved ==
    /\ [](StatusKeys(statuses) \subseteq Monitored)
    /\ [][StatusKeys(statuses) \subseteq StatusKeys(statuses')]_vars

---------------------------------------------------------------------------
(* C17 *)

\* the threads that are inside their with self.status_lock block
InsideWith ==
    (IF api_pc = "serve" THEN {"api"} ELSE {})
    \cup (IF d_pc = "record" THEN {"deploy"} ELSE {})
    \cup (IF h_pc = "record" THEN {"health"} ELSE {})

\* the lock is held by exactly the thread inside its with block, if any
OneHolder ==
    /\ Cardinality(InsideWith) <= 1
    /\ status_lock = "free" <=> InsideWith = {}
    /\ status_lock # "free" => InsideWith = {status_lock}

\* the step is the request thread returning what it read of the shared state
ApiReads == api_pc = "serve" /\ api_pc' = "idle"

\* the step runs a command of the deploy loop (a detection, pull or deploy
\* command or the loop's container probe) or sends a notification
DeployLoopActsOutside ==
    \/ notifications' # notifications
    \/ /\ trace' # trace
       /\ ~(Len(trace') = Len(trace) + 1 /\ trace'[Len(trace')].ev = "append")

\* the step runs a health probe of the scheduler
SchedulerProbes ==
    /\ h_trace' # h_trace /\ h_trace' # <<>>
    /\ h_trace'[Len(h_trace')].ev # "record"

\* C17: every read and every write of the status map, the health logs and
\* the deploy logs is made by the thread that holds the status lock: the
\* request thread returns its reply while it holds it, the statuses and the
\* health logs change only in a step of the scheduler holding it, the deploy
\* logs only in a step of the deploy loop holding it; at most one thread is
\* inside its with block at a time; and no command, probe or notification is
\* run by a thread that holds the lock.
C17_LockDiscipline ==
    /\ []OneHolder
    /\ [][/\ ApiReads => status_lock = "api"
          /\ (statuses' # statuses \/ history' # history) =>
                 h_pc = "record" /\ status_lock = "health"
          /\ deploy_history' # deploy_history =>
                 d_pc = "record" /\ status_lock = "deploy"
          /\ DeployLoopActsOutside => status_lock # "deploy" /\ d_pc # "record"
          /\ SchedulerProbes => status_lock # "health" /\ h_pc # "record"]_vars

\* a series query is being answered from a state the scheduler and the
\* deploy loop have both written, while both of them wait for the lock
C17_Witness ==
    /\ status_lock = "api" /\ api_pc = "serve"
    /\ api_req.handler = "api_deployments"
    /\ d_pc = "lock" /\ h_pc = "lock"
    /\ statuses["db"] # "none"
    /\ deploy_history["db"] # <<>>

---------------------------------------------------------------------------
(* C18 *)

\* the names of the first n configured projects, in configuration order
FirstNames(n) == [i \in 1..n |-> projects[i].name]

VisitedNames == [i \in DOMAIN visited |-> visited[i].name]

\* C18: within one deploy-check cycle every configured project is passed to
\* process_project exactly once, in configuration order: while project
\* number d_idx is processed the projects visited are the first d_idx of the
\* configuration, whatever failed or raised in the earlier ones; the loop
\* always goes on from a finished visit; and when the cycle ends all of them
\* have been visited, each once.
C18_CycleVisitsAll ==
    /\ d_pc = "visit" => VisitedNames = FirstNames(d_idx - 1)
    /\ d_pc \notin {"visit", "sleep"} => VisitedNames = FirstNames(d_idx)
    /\ d_pc = "sleep" => VisitedNames = FirstNames(Len(projects))
    /\ d_pc = "done" => ENABLED NextProject

\* a cycle has ended in which an exception left process_project for one
\* project and the projects after it were visited
C18_Witness ==
    /\ d_pc = "sleep"
    /\ Len(visited) = 3
    /\ visited[2].raised
    /\ VisitedNames = <<"off", "nocfg", "gone">>

---------------------------------------------------------------------------
(* C19 *)

\* the names recorded (status stored, history appended) in the pass so far
RecordedInPass == {h_trace[i].name : i \in {j \in DOMAIN h_trace : h_trace[j].ev = "record"}}

\* the health-check pass has ended: the scheduler is at its time.sleep
PassEnded == h_pc = "sleep"

\* C19: within one health-check cycle an exception raised while handling one
\* project never prevents the remaining monitorable projects of the cycle
\* from being probed and recorded: when the pass ends, every monitorable
\* project other than those whose own handling raised has been recorded.
C19_PassReachesEveryProject ==
    PassEnded =>
        \A n \in Monitored :
            \/ n \in RecordedInPass
            \/ \E i \in DOMAIN h_trace : h_trace[i].ev = "raise" /\ h_trace[i].name = n

---------------------------------------------------------------------------
(* C20 *)

\* C20: no exception escapes check_project_health, whatever the project's
\* configuration: neither the scheduler's call (line 467) nor the deploy
\* loop's (line 876) ends in an exception, and a failure inside probing
\* gives the status unhealthy.
C20_ProbeNeverRaises ==
    /\ \A i \in DOMAIN h_trace : h_trace[i].ev # "raise"
    /\ \A i \in DOMAIN trace : trace[i] # Raised("UnboundLocalError")
    /\ h_status # Escaped /\ health_status # Escaped

---------------------------------------------------------------------------
(* C24 *)

\* the positions of the pass's events at which project n was recorded
RecordsOf(n) == {i \in DOMAIN h_trace : h_trace[i].ev = "record" /\ h_trace[i].name = n}

\* C24: each pass of the health-check loop appends exactly one health-log
\* entry per monitorable project (enabled or monitor-only) and none for any
\* other project: when the pass has ended, every monitorable project has been
\* recorded once in it and no other project has been recorded.
C24_OneEntryPerPass ==
    PassEnded =>
        \A n \in Names :
            Cardinality(RecordsOf(n)) = (IF n \in Monitored THEN 1 ELSE 0)

\* What holds of every pass, ended or not: a project is recorded at most
\* once, only if it is monitorable, and with the status its probe returned
\* just before; the entry appended carries that status's is_unhealthy flag.
C24_AtMostOneEntryPerPass ==
    /\ \A n \in Names :
          /\ Cardinality(RecordsOf(n)) <= 1
          /\ RecordsOf(n) # {} => n \in Monitored
    /\ \A i \in DOMAIN h_trace :
          h_trace[i].ev = "record" =>
              /\ i > 1
              /\ h_trace[i - 1] = HEvent("probe", h_trace[i].name, h_trace[i].what)
              /\ LET hl == history[h_trace[i].name]
                 IN  hl # <<>> /\ (i = Len(h_trace) =>
                        hl[Len(hl)][2] = (IF h_trace[i].what = "healthy" THEN 0 ELSE 1))

---------------------------------------------------------------------------
(* C25 *)

\* the step is one of the health-check loop
SchedulerStep == healthVars' # healthVars

\* the step runs a command of a deployment (detection, pull, pre_deploy,
\* dispatch, post_deploy), records one or notifies of one
DeploymentStep ==
    \/ Len(trace') > Len(trace)
    \/ Len(notifications') > Len(notifications)
    \/ deploy_history' # deploy_history

\* C25: under every interleaving of the two loops, a step of the health-check
\* loop runs no pull, pre_deploy, post_deploy or deploy-method command, sends
\* no notification and leaves every deploy log and the deploy-check loop's
\* position unchanged; every deployment step is a step of the deploy-check
\* loop, made for the one project that loop is visiting, and a deploy-log
\* entry is appended only for that project: at most one deployment of a
\* project is in progress at any time.
C25_OnlyDeployLoopDeploys ==
    [][/\ SchedulerStep =>
             UNCHANGED <<trace, notifications, deploy_history, deployVars>>
       /\ DeploymentStep =>
             /\ UNCHANGED <<healthVars, d_idx>>
             /\ d_pc \in {"visit", "probe", "pull", "deploy", "lock", "record", "notify"}
             /\ \A n \in Names :
                   deploy_history'[n] # deploy_history[n] => n = Visited.name]_vars

\* the deploy-check loop is recording a deployment of "db" it has just
\* dispatched while the scheduler, having probed "db", waits for the lock
C25_Witness ==
    /\ d_pc = "record" /\ Visited.name = "db"
    /\ At({"dispatch"}) # {}
    /\ h_pc = "lock" /\ projects[h_idx].name = "db"
    /\ status_lock = "deploy"

---------------------------------------------------------------------------
(* C26 *)

\* the build+start, the restart or the deploy script was run and failed
DispatchFailed ==
    \E i \in At({"dispatch"}) : trace[i].what \in StartCommands /\ ~trace[i].ok

\* the notifications that report a failure; the divergence warning of
\* check_git_status, sent before a recovery run, is not one
FailureKinds == {"deploy_failed", "recovery_failed", "git_check_failed", "pull_failed"}
FailureNotes == {i \in DOMAIN notifications : notifications[i].kind \in FailureKinds}
SuccessNotes ==
    {i \in DOMAIN notifications : notifications[i].kind \in {"deployed", "recovered"}}

\* the visit's one failure notification is the last notification sent and
\* reports the failed deploy of the project visited
OneDeployFailureNote ==
    /\ FailureNotes = {Len(notifications)}
    /\ SuccessNotes = {}
    /\ notifications[Len(notifications)].kind \in {"deploy_failed", "recovery_failed"}
    /\ notifications[Len(notifications)].name = Visited.name

\* C26: once the build+start of a docker-compose deploy, the restart of a
\* systemd deploy or the script of a custom deploy has failed, the visit is
\* over with deploy having returned failure: no post_deploy command was run,
\* no entry was appended to the deploy log, exactly one failure notification
\* was sent and no success notification, the failing command is the last
\* command of the visit and was run once, and the visit is the project's only
\* one of the cycle: no retry.
C26_DispatchFailureFailsDeploy ==
    DispatchFailed =>
        /\ d_pc = "done"
        /\ deploy_ret = "False"
        /\ At({"post_deploy"}) = {}
        /\ At({"append"}) = {}
        /\ deploy_history[Visited.name] = dlog_at_visit
        /\ OneDeployFailureNote
        /\ Cardinality({i \in At({"dispatch"}) : trace[i].what \in StartCommands}) = 1
        /\ \A i \in At({"dispatch"}) :
              (trace[i].what \in StartCommands /\ ~trace[i].ok) => LastCommand(i)
        /\ Cardinality({i \in DOMAIN visited : visited[i].name = Visited.name}) = 1

\* the start command of a project with a post_deploy command failed after a
\* pull
C26_Witness ==
    /\ DispatchFailed
    /\ PullSucceeded
    /\ Visited.post_deploy # <<>>
    /\ notifications[1].kind = "deploy_failed"

---------------------------------------------------------------------------
(* C27 *)

KnownMethods == {"docker-compose", "systemd", "custom"}

\* deploy_project was called this visit and has returned or raised
DeployReturned == d_pc = "done" /\ deploy_ret # ""

\* C27: once deploy has returned for a project whose deploy method is none
\* of docker-compose, systemd and custom, it has returned failure with no
\* stop, build+start, restart or script command run, no post_deploy command
\* run and no entry appended to the deploy log; the only commands of the
\* deploy are pre_deploy commands, each run at most once (no retry), and one
\* failure notification was sent.
C27_UnknownMethodFailsDeploy ==
    (DeployReturned /\ Visited.deploy_method \notin KnownMethods) =>
        /\ deploy_ret = "False"
        /\ At({"dispatch"}) = {}
        /\ At({"post_deploy"}) = {}
        /\ At({"append"}) = {}
        /\ deploy_history[Visited.name] = dlog_at_visit
        /\ IsPrefix(Ran(trace, "pre_deploy"), Visited.pre_deploy)
        /\ OneDeployFailureNote

\* every pre_deploy command of the project succeeded: the dispatch was reached
C27_Witness ==
    /\ DeployReturned /\ Visited.deploy_method = "kubernetes"
    /\ PreDeploySucceeded
    /\ Visited.post_deploy # <<>>

---------------------------------------------------------------------------
(* C28 *)

\* C28: in a docker-compose deploy the stop command is run first and the
\* build+start right after it, whether the stop succeeded or failed; each is
\* run once, and the deploy method succeeded exactly when the build+start
\* did: the visit goes on to post_deploy and the deploy log if it succeeded
\* and ends with deploy having returned failure if it failed.
C28_StopThenStart ==
    /\ Cardinality(Where("docker compose down")) <= 1
    /\ Cardinality(Where("docker compose up")) <= 1
    /\ \A i \in Where("docker compose down") :
          /\ Visited.deploy_method = "docker-compose"
          /\ i + 1 \in Where("docker compose up")
          /\ \A j \in At({"dispatch"}) : j >= i
    /\ \A j \in Where("docker compose up") :
          /\ j - 1 \in Where("docker compose down")
          /\ IF trace[j].ok
             THEN /\ d_pc \in {"lock", "record", "notify", "done"}
                  /\ d_pc = "done" => deploy_ret = "True"
             ELSE d_pc = "done" /\ deploy_ret = "False"

\* the stop failed and the deploy succeeded all the same
C28_Witness ==
    /\ \E i \in Where("docker compose down") : ~trace[i].ok
    /\ \E j \in Where("docker compose up") : trace[j].ok
    /\ d_pc = "done" /\ deploy_ret = "True"

---------------------------------------------------------------------------
(* C29 *)

\* the step is one of the request thread
RequestStep == api_pc' # api_pc \/ api_req' # api_req

\* C29: a step of a status query or of either bucketed aggregation (the
\* request arriving, the handler taking the lock, the handler replying)
\* leaves the status map, every health log and every deploy log as they
\* were, whatever the window asked for and whatever the logs hold.
C29_QueriesReadOnly ==
    [][RequestStep => UNCHANGED <<statuses, history, deploy_history>>]_vars

\* an aggregation is being served over a log that holds an entry older than
\* the window asked for and an entry inside it
C29_Witness ==
    /\ api_pc = "serve"
    /\ api_req.handler \in {"api_downtime", "api_deployments"}
    /\ LET f == Frame(ArgsGet(api_req.args, "range", "7d"), api_req.now)
       IN  \E n \in Names :
              /\ \E i \in DOMAIN history[n] : history[n][i][1] < f.start_ts
              /\ \E i \in DOMAIN history[n] : history[n][i][1] >= f.start_ts
              /\ \E i \in DOMAIN deploy_history[n] : deploy_history[n][i] < f.start_ts

---------------------------------------------------------------------------
(* C21 *)

\* check_project_health has returned
ProbeReturned == probe_out # NoResult

UrlConfigured == probe_in.project.health.url # NoKey

TxtHTTP500 == <<72, 84, 84, 80, 0, 53, 48, 48>>     \* 'HTTP 500'

\* C21: for a project with a check URL, whatever its deploy method, the one
\* check made is the HTTP request: no container listing, systemctl or script
\* call.  The result is healthy iff the request returned and the response
\* status equals the expected status (200 when none is configured); for any
\* other status it is unhealthy with details 'HTTP <status>'; when the
\* request raised it is unhealthy with the exception text as details.
C21_HttpStrategy ==
    (ProbeReturned /\ UrlConfigured) =>
        LET h == probe_in.project.health
            resp == probe_in.env.http
            expected == IF h.expected_status = <<>> THEN 200 ELSE h.expected_status[1]
            r == probe_out
        IN  /\ r.calls = <<"requests.get">>
            /\ r.status \in {"healthy", "unhealthy"}
            /\ r.status = "healthy" <=> (~resp.raised /\ resp.status_code = expected)
            /\ (~resp.raised /\ resp.status_code # expected) =>
                  r.details = TxtHTTP \o Decimal(resp.status_code)
            /\ (~resp.raised /\ resp.status_code = 500 /\ expected # 500) =>
                  r.details = TxtHTTP500
            /\ resp.raised => r.details = resp.text

\* a docker-compose project whose check URL answered 500 while its container
\* is listed as running: unhealthy, 'HTTP 500'
C21_Witness ==
    /\ ProbeReturned /\ UrlConfigured
    /\ probe_in.project.deploy_method = "docker-compose"
    /\ probe_in.project.health.expected_status = <<>>
    /\ probe_in.env.http.status_code = 500
    /\ probe_in.env.docker_client = "lists"
    /\ probe_out.status = "unhealthy"
    /\ probe_out.details = TxtHTTP500

---------------------------------------------------------------------------
(* C22 *)

\* the container strategy is used and a service name is configured
ContainerStrategy ==
    /\ ~UrlConfigured
    /\ probe_in.project.deploy_method = "docker-compose"
    /\ probe_in.project.service_name # <<>>

ExplicitName == Get(probe_in.project.health.container_name, <<>>)

\* {service, basename, basename_service_1, basename-service-1, service_1,
\* service-1}, the empty string (the basename of a project without a
\* directory) not being a name
CandidateNames ==
    LET service == probe_in.project.service_name
        basename == probe_in.project.basename
    IN  {service, basename,
         basename \o <<95>> \o service \o <<95, 49>>,
         basename \o <<45>> \o service \o <<45, 49>>,
         service \o <<95, 49>>, service \o <<45, 49>>} \ {<<>>}

\* the matching rule of the claim
Matches(name, image) ==
    IF ExplicitName # <<>> THEN name = ExplicitName
    ELSE \E cand \in CandidateNames :
            name = cand \/ Contains(name, cand) \/ Contains(image, cand)

\* the containers of the SDK's listing that match, by position
SdkMatches ==
    IF probe_in.env.docker_client = "lists"
    THEN {i \in DOMAIN probe_in.env.containers :
             Matches(probe_in.env.containers[i].name, probe_in.env.containers[i].image)}
    ELSE {}

EndsWith(s, tail) ==
    Len(tail) <= Len(s) /\ SubSeq(s, Len(s) - Len(tail) + 1, Len(s)) = tail

\* C22: in the container strategy, when the SDK lists the containers: with an
\* explicit container name a container matches iff its name equals that
\* name; with none it matches iff a candidate equals its name, is a substring
\* of its name or is a substring of its image reference.  When a listed
\* container matches, the first one that does decides the result, without
\* the shell listing: healthy iff its state is 'running' and its built-in
\* health status is absent or 'healthy', unhealthy otherwise, with the
\* container's name at the end of the details.  When none matches the shell
\* listing is consulted.
C22_ContainerMatching ==
    (ProbeReturned /\ ContainerStrategy /\ probe_in.env.docker_client = "lists") =>
        LET r == probe_out
        IN  IF SdkMatches # {}
            THEN LET c == probe_in.env.containers[Min(SdkMatches)]
                 IN  /\ r.calls = <<"containers.list">>
                     /\ r.status \in {"healthy", "unhealthy"}
                     /\ r.status = "healthy" <=>
                           (c.state = TxtRunning /\ c.health \in {NoKey, TxtHealthy})
                     /\ EndsWith(r.details, <<Pipe>> \o c.name)
            ELSE r.calls = <<"containers.list", "docker ps">>

\* service 'web' in directory 'myapp', no explicit name; the SDK lists the
\* running container 'myapp_web_1', which has no health block: healthy
C22_Witness ==
    /\ ProbeReturned /\ ContainerStrategy
    /\ probe_in.project.service_name = TxtWeb
    /\ probe_in.project.basename = TxtMyapp
    /\ ExplicitName = <<>>
    /\ probe_in.env.docker_client = "lists"
    /\ Len(probe_in.env.containers) = 1
    /\ probe_in.env.containers[1].name = TxtMyappWeb1
    /\ probe_in.env.containers[1].state = TxtRunning
    /\ probe_in.env.containers[1].health = NoKey
    /\ probe_out.status = "healthy"

\* with the explicit name 'web' the container 'myapp_web_1' is passed over,
\* though the candidate 'web' is a substring of its name
C22_WitnessExplicit ==
    /\ ProbeReturned /\ ContainerStrategy
    /\ ExplicitName = TxtWeb
    /\ probe_in.env.docker_client = "lists"
    /\ Len(probe_in.env.containers) = 2
    /\ probe_in.env.containers[1].name = TxtMyappWeb1
    /\ SdkMatches = {2}
    /\ probe_out.status = "unhealthy"

---------------------------------------------------------------------------
(* C23 *)

\* the shell listing was run
ShellConsulted == \E i \in DOMAIN probe_out.calls : probe_out.calls[i] = "docker ps"

\* the lines of the shell listing that have three fields of which the name
\* and the image match, by position
PsMatches ==
    IF probe_in.env.ps.ok
    THEN {i \in DOMAIN probe_in.env.ps.lines :
             LET parts == SplitPipe(probe_in.env.ps.lines[i])
             IN  Len(parts) = 3 /\ Matches(Strip(parts[2]), Strip(parts[3]))}
    ELSE {}

\* the first matching line of the shell listing decides: healthy iff its
\* status field contains 'Up'
ShellVerdict ==
    PsMatches # {} =>
        LET parts == SplitPipe(probe_in.env.ps.lines[Min(PsMatches)])
        IN  /\ probe_out.status \in {"healthy", "unhealthy"}
            /\ probe_out.status = "healthy" <=> Contains(Strip(parts[1]), TxtUp)

\* C23 as stated: in the container strategy the shell listing is consulted
\* when the SDK is unavailable or its listing raises, the same matching rule
\* decides with a status containing 'Up' as healthy, and whenever no
\* container matches by either path the result is unhealthy with details
\* 'No matching container'.
C23_NoMatchAlwaysReported ==
    (ProbeReturned /\ ContainerStrategy) =>
        /\ probe_in.env.docker_client \in {"none", "raises"} =>
              ShellConsulted /\ ShellVerdict
        /\ (SdkMatches = {} /\ PsMatches = {}) =>
              /\ probe_out.status = "unhealthy"
              /\ probe_out.details = TxtNoMatch

\* C23 amended: in the container strategy the shell listing is consulted
\* exactly when no container was matched through the SDK: the SDK is
\* unavailable, its listing raised, or it listed no matching container.
\* Then, if the listing command failed the result is unhealthy with the
\* command's stripped output as details; if it succeeded and no line
\* matches, the result is unhealthy with details 'No matching container';
\* otherwise the first matching line decides, healthy iff its status field
\* contains 'Up'.
C23_ShellFallback ==
    (ProbeReturned /\ ContainerStrategy) =>
        /\ ShellConsulted <=> SdkMatches = {}
        /\ ShellConsulted =>
              /\ ShellVerdict
              /\ ~probe_in.env.ps.ok =>
                    /\ probe_out.status = "unhealthy"
                    /\ probe_out.details = Strip(probe_in.env.ps.out)
              /\ (probe_in.env.ps.ok /\ PsMatches = {}) =>
                    /\ probe_out.status = "unhealthy"
                    /\ probe_out.details = TxtNoMatch

\* the SDK's listing raised and the shell listing failed: unhealthy, with the
\* command's output, not 'No matching container'
C23_Witness ==
    /\ ProbeReturned /\ ContainerStrategy
    /\ probe_in.env.docker_client = "raises"
    /\ ~probe_in.env.ps.ok
    /\ probe_out.status = "unhealthy"
    /\ probe_out.details = <<67, 1>>

\* the SDK listed only containers that do not match and the shell listing
\* has a matching line whose status contains 'Up': healthy
C23_WitnessAfterSdk ==
    /\ ProbeReturned /\ ContainerStrategy
    /\ probe_in.env.docker_client = "lists"
    /\ probe_in.env.containers # <<>>
    /\ SdkMatches = {}
    /\ PsMatches # {}
    /\ probe_out.status = "healthy"

---------------------------------------------------------------------------
(* C30 *)

LiveNames == {"text", "off", "db"}

IsEnabled(n) == \E i \in DOMAIN projects : projects[i].name = n /\ projects[i].enabled
IsMonitorable(n) == n \in Monitored

\* process_project has been called for n and has returned: update detection
\* was run for it, unless its directory is missing
DetectedNow(n) == d_pc = "done" /\ Visited.name = n

\* check_project_health has been called for n by the scheduler in this pass
ProbedNow(n) ==
    \E i \in DOMAIN h_trace : h_trace[i].name = n /\ h_trace[i].ev \in {"probe", "raise"}

\* each loop starts a new iteration again and again, whatever the last one
\* ran into
LoopsGoOn ==
    /\ []<>(d_pc = "sleep") /\ []<>(d_pc = "visit" /\ d_idx = 1)
    /\ []<>(h_pc = "sleep") /\ []<>(h_pc = "probe" /\ h_idx = 1)

\* C30: both loops run for ever, an iteration that ran into an error being
\* followed by a wait and a new iteration; and, every command returning and
\* each loop being scheduled, every enabled project is detected infinitely
\* often and every monitorable project is probed infinitely often.
C30_LoopsLive ==
    /\ LoopsGoOn
    /\ \A n \in LiveNames : []<>(IsEnabled(n) => DetectedNow(n))
    /\ \A n \in LiveNames : []<>(IsMonitorable(n) => ProbedNow(n))

\* What holds: the loops go on for ever, every project is passed to
\* process_project infinitely often, and the first monitorable project of the
\* list is probed infinitely often.
C30_FirstProbedForEver ==
    /\ LoopsGoOn
    /\ \A n \in LiveNames : []<>(IsEnabled(n) => DetectedNow(n))
    /\ []<>ProbedNow(projects[1].name)

---------------------------------------------------------------------------
(* C31 *)

\* deploy_project has been called in this visit
DeployCalled == d_pc \in {"deploy", "lock", "record", "notify"} \/ deploy_ret # ""

\* the visit is over and deploy_project was called in it without a pull:
\* the call of line 884
RecoveryRunOver == d_pc = "done" /\ deploy_ret # "" /\ ~PullSucceeded

RecoveryNotes ==
    {i \in DOMAIN notifications :
        notifications[i].kind \in {"recovered", "recovery_failed"}}

\* a deploy without a pull is the recovery run of an up-to-date docker-compose
\* project whose probe of this visit was not healthy
OnlyRecoveryWithoutPull ==
    (DeployCalled /\ ~PullSucceeded) =>
        /\ update_info = None
        /\ Visited.deploy_method = "docker-compose"
        /\ health_status \in {"unhealthy", "unknown"}
        /\ \E i \in At({"probe"}) :
              /\ trace[i].what = health_status
              /\ \A j \in At(DeploySteps) : i < j

\* a docker-compose project probed healthy is left alone
HealthyNotRedeployed ==
    health_status = "healthy" =>
        /\ ~DeployCalled
        /\ ~DeployStepRun
        /\ RecoveryNotes = {}
        /\ deploy_history[Visited.name] = dlog_at_visit

\* C31: a deploy is dispatched without a preceding successful pull in the same
\* cycle only when detection reported no update for the project, its deploy
\* method is docker-compose and the probe taken in that cycle by the
\* deploy-check loop was not Healthy; the recovery redeploy sends exactly one
\* recovery notification (success or failure); and a docker-compose project
\* probed Healthy with no Behind result is never redeployed.
C31_RecoveryRedeploy ==
    /\ OnlyRecoveryWithoutPull
    /\ RecoveryRunOver => Cardinality(RecoveryNotes) = 1
    /\ HealthyNotRedeployed

\* What holds: a recovery run that returned has sent exactly one recovery
\* notification, the last of the visit, reporting success iff deploy returned
\* True and carrying the status probed; a recovery run that raised (the
\* project has no docker_compose section) has sent none.
C31_RecoveryRedeployReturned ==
    /\ OnlyRecoveryWithoutPull
    /\ (RecoveryRunOver /\ deploy_ret # "raised") =>
          /\ RecoveryNotes = {Len(notifications)}
          /\ LET n == notifications[Len(notifications)]
             IN  /\ n.kind = IF deploy_ret = "True" THEN "recovered"
                              ELSE "recovery_failed"
                 /\ n.name = Visited.name
                 /\ n.status = health_status
    /\ (RecoveryRunOver /\ deploy_ret = "raised") =>
          /\ RecoveryNotes = {}
          /\ Visited.method_cfg = ""
          /\ health_status = "unknown"
    /\ HealthyNotRedeployed

---------------------------------------------------------------------------
(* C32 *)

\* a request handler is inside its with block
ReaderHolds == api_pc = "serve" /\ status_lock = "api"

LastOf(q) == q[Len(q)]

\* is_unhealthy of line 473, as stored at line 475
Flag(status) == IF status # "healthy" THEN 1 ELSE 0

\* what a reader finds for project n
StatusAgreesWithLog(n) ==
    /\ n \in StatusKeys(statuses) <=> history[n] # <<>>
    /\ n \in StatusKeys(statuses) =>
          /\ LastOf(history[n])[2] = Flag(statuses[n])
          /\ statuses[n] \in {"healthy", "unhealthy", "unknown"}
    /\ last_append.health.name = n =>
          /\ n \in StatusKeys(statuses)
          /\ LastOf(history[n])[1] = last_append.health.ts

\* a step that stores a status for n or changes n's health log does both: it
\* is the scheduler's step inside its with block, the entry appended is the
\* last of the log after the pruning, and its flag is that of the status stored
StoredAndAppendedTogether(n) ==
    (statuses'[n] # statuses[n] \/ history'[n] # history[n]) =>
        /\ status_lock = "health" /\ status_lock' = "free"
        /\ projects[h_idx].name = n
        /\ statuses'[n] = h_status
        /\ history'[n] # history[n]
        /\ history'[n] # <<>>
        /\ LastOf(history'[n]) = <<last_append'.health.ts, Flag(h_status)>>
        /\ last_append'.health.name = n

\* C32: the status is stored and the health-log entry appended in one step
\* under the lock, so whenever a request handler holds the lock: a project has
\* an entry in statuses iff its health log has been appended to, its health log
\* is then not empty (the pruning does not remove the entry just appended), and
\* the flag of the last entry of its health log is 1 iff the status stored is
\* not 'healthy' ('unknown' is recorded as unhealthy).
C32_StatusAndLogTogether ==
    /\ [](ReaderHolds => \A n \in Names : StatusAgreesWithLog(n))
    /\ [][\A n \in Names : StoredAndAppendedTogether(n)]_vars

\* a request handler holds the lock after an unknown status was recorded
C32_Witness ==
    /\ ReaderHolds
    /\ statuses["nocfg"] = "unknown"
    /\ LastOf(history["nocfg"])[2] = 1

\* a request handler holds the lock after the second unknown status was
\* recorded and the first entry pruned
C32_WitnessPruned ==
    /\ ReaderHolds
    /\ statuses["nocfg"] = "unknown"
    /\ h_pass = 2
    /\ Len(history["nocfg"]) = 1

---------------------------------------------------------------------------
(* C33 *)

\* a step of the deploy-check loop
DeployLoopStep == deployVars' # deployVars

\* the deploy log of the project being visited has changed since the visit
\* began
DeployLogChanged == deploy_history[Visited.name] # dlog_at_visit

\* C33: the deploy-check loop never writes statuses or a health log: the probe
\* it takes for the recovery decision is not recorded, and after a successful
\* deploy the project's status and health log stay as they are until the
\* scheduler's next record; the only shared state the deploy-check loop
\* changes is the deploy log of the project being deployed, and it changes it
\* iff deploy returned True, for update deploys and recovery runs alike.
C33_DeployLoopWritesOnlyDeployLog ==
    /\ [][DeployLoopStep =>
            /\ statuses' = statuses
            /\ history' = history
            /\ \A n \in Names \ {Visited.name} : deploy_history'[n] = deploy_history[n]
            /\ deploy_history' # deploy_history =>
                  /\ status_lock = "deploy"
                  /\ deploy_ret = "" /\ deploy_ret' = "True"]_vars
    /\ [][(statuses' # statuses \/ history' # history) => SchedulerStep]_vars
    /\ [](deploy_ret = "True" <=> DeployLogChanged)
    /\ [](d_pc = "done" /\ deploy_ret \in {"False", "raised", ""} =>
             deploy_history[Visited.name] = dlog_at_visit)

\* a recovery run has succeeded on a probe that read unhealthy; the status
\* the scheduler stored before it is still healthy, with its one log entry
C33_Witness ==
    /\ d_pc = "done"
    /\ d_recovery
    /\ deploy_ret = "True"
    /\ health_status = "unhealthy"
    /\ statuses["db"] = "healthy"
    /\ Len(history["db"]) = 1
    /\ DeployLogChanged

\* an update deploy has succeeded before the scheduler recorded anything
C33_WitnessUpdate ==
    /\ d_pc = "done"
    /\ PullSucceeded
    /\ deploy_ret = "True"
    /\ "db" \notin StatusKeys(statuses)
    /\ DeployLogChanged

---------------------------------------------------------------------------
(* C34 *)

\* api_downtime holds the lock
DowntimeServed == api_pc = "serve" /\ api_req.handler = "api_downtime"

\* the latest health sample: name, timestamp stored, time.time() when stored
LastSample == last_append.health

\* the sample was taken before the request read the clock, inside the window
SampleInWindow ==
    /\ LastSample.name # ""
    /\ LastSample.at < api_req.now
    /\ LastSample.at >= api_req.now - Asked.length

\* the bucket of a sample taken at time t, counted from 1
BucketOf(t) == ((t - (api_req.now - Asked.length)) \div Asked.width) + 1

\* C34: health-log timestamps and the 'now' of the aggregation are values of
\* the same clock: a sample appended when the clock reads t carries timestamp
\* t, so an aggregation at a later time t' with t < t' and
\* t >= t' - window_length counts it in bucket
\* floor((t - (t' - window_length)) / bucket_width), for every host
\* time-zone offset.
C34_SameClock ==
    /\ LastSample.ts = LastSample.at
    /\ (DowntimeServed /\ SampleInWindow) =>
          LET r == Reply
          IN  /\ LastSample.name \in DOMAIN r.counts
              /\ r.counts[LastSample.name][BucketOf(LastSample.at)] >= 1

\* What holds: the timestamp stored is the clock's reading less the host's
\* UTC offset, and the sample is counted by that timestamp: in the bucket the
\* claim names when the host is on UTC.
C34_ShiftedByOffset ==
    /\ LastSample.name # "" => LastSample.ts = LastSample.at - tz_offset
    /\ (DowntimeServed /\ SampleInWindow /\ tz_offset = 0) =>
          LET r == Reply
          IN  /\ LastSample.name \in DOMAIN r.counts
              /\ r.counts[LastSample.name][BucketOf(LastSample.at)] >= 1
    /\ (DowntimeServed /\ SampleInWindow /\ tz_offset = -3600) =>
          LET r == Reply
          IN  \A i \in DOMAIN r.counts[LastSample.name] :
                 r.counts[LastSample.name][i] = 0

=============================================================================
